---- MODULE Spec2Model ----
(***************************************************************************)
(* plusendi: the VARA TNC session controller (src/src/modem/vara.rs), the  *)
(* B2 frame parser (src/src/fbb.rs) and the LZHUF codec                    *)
(* (src/src/lzhuf.rs).                                                     *)
(*                                                                         *)
(* Three specifications share this module:                                 *)
(*   Spec       the controller task, its clients and the TNC               *)
(*   SpecFrame  b2_message_block fed an input buffer that grows            *)
(*   SpecCodec  Encoder::encode followed by Decoder::decode                *)
(* Bytes are integers 0..255 and byte strings are sequences of them.       *)
(***************************************************************************)
EXTENDS Integers, Sequences, FiniteSets, TLC

VARIABLES
    \* ---- controller task (manage_modem_thread) ----
    ctlPc,          \* "main" | "drain" | "Ok" | "IoError" | "ParseError"
    response_queue, \* VecDeque of reply slots (slot ids), front first
    upd_buffer,     \* bytes read from the control socket and not yet consumed
    tx,             \* TncStatusSender: the values of the watch channels
    \* ---- channels and sockets ----
    chan,           \* mpsc channel (Command, reply slot): slot ids in flight
    inputOpen,      \* some Sender of the command channel is still alive
    replies,        \* one record per submitted command, in submission order
    sockOut,        \* bytes written to the control socket, not yet read by the TNC
    sockIn,         \* bytes sent by the TNC, not yet read by the controller
    \* ---- the TNC (environment) and history ----
    tncLog,         \* every line the TNC has sent, in order
    tncAnswers,     \* per command the TNC has answered: the command bytes, the result
    nProc,          \* number of complete lines the controller has consumed
    \* ---- VaraTnc::connect caller, VaraStream, spawned tasks ----
    user,           \* the task that calls connect and owns the VaraStream
    fdc,            \* per session: the force_dc task
    rdc,            \* per session: the remote_dc task and its oneshot channel
    \* ---- B2 frame parser ----
    frame,
    \* ---- LZHUF codec ----
    codec,
    \* ---- one function under evaluation: its input and its result ----
    fn

ctlVars == <<ctlPc, response_queue, upd_buffer, tx, chan, inputOpen, replies,
             sockOut, sockIn, tncLog, tncAnswers, nProc, user, fdc, rdc>>
vars == <<ctlVars, frame, codec, fn>>

\* ------------------------------------------------------------------------
\* Bounds of the model
\* ------------------------------------------------------------------------
MaxCmds == 2        \* reply slots: commands submitted, connect and force_dc included
MaxSessions == 1    \* calls of VaraTnc::connect
MaxUpdates == 2     \* unsolicited lines the TNC sends
MaxOps == 2         \* reads/writes performed on one VaraStream

\* ------------------------------------------------------------------------
\* Byte strings
\* ------------------------------------------------------------------------
CR == 13
SP == 32
Digits == 48..57
Upper == 65..90

StartsWith(data, t) == Len(data) >= Len(t) /\ SubSeq(data, 1, Len(t)) = t
Drop(data, n) == SubSeq(data, n + 1, Len(data))
MinOf(S) == CHOOSE x \in S : \A y \in S : x <= y
\* length of the longest prefix of data whose bytes all lie in S (take_while)
PrefixLen(data, S) ==
    LET bad == {i \in 1..Len(data) : data[i] \notin S}
    IN IF bad = {} THEN Len(data) ELSE MinOf(bad) - 1

RECURSIVE DecimalValue(_)
DecimalValue(ds) ==
    IF ds = <<>> THEN 0
    ELSE 10 * DecimalValue(SubSeq(ds, 1, Len(ds) - 1)) + (ds[Len(ds)] - 48)

Fail == [ok |-> FALSE]
Done(rest, val) == [ok |-> TRUE, rest |-> rest, val |-> val]

\* ------------------------------------------------------------------------
\* Control-line grammar (nom parsers of vara.rs)
\* ------------------------------------------------------------------------
S_OK == <<79, 75>>
S_WRONG == <<87, 82, 79, 78, 71>>
S_IAMALIVE == <<73, 65, 77, 65, 76, 73, 86, 69>>
S_BUFFER == <<66, 85, 70, 70, 69, 82, 32>>
S_BUSY == <<66, 85, 83, 89, 32>>
S_PTT == <<80, 84, 84, 32>>
S_ON == <<79, 78>>
S_OFF == <<79, 70, 70>>
S_DISCONNECTED == <<68, 73, 83, 67, 79, 78, 78, 69, 67, 84, 69, 68>>
S_PENDING == <<80, 69, 78, 68, 73, 78, 71>>
S_CANCELPENDING == <<67, 65, 78, 67, 69, 76, 80, 69, 78, 68, 73, 78, 71>>
S_CONNECTED == <<67, 79, 78, 78, 69, 67, 84, 69, 68, 32>>
S_REGISTERED == <<82, 69, 71, 73, 83, 84, 69, 82, 69, 68, 32>>

command_result(data) ==
    IF StartsWith(data, S_OK) THEN Done(Drop(data, Len(S_OK)), "Ok")
    ELSE IF StartsWith(data, S_WRONG) THEN Done(Drop(data, Len(S_WRONG)), "Wrong")
    ELSE Fail

on_or_off(data) ==
    IF StartsWith(data, S_ON) THEN Done(Drop(data, Len(S_ON)), TRUE)
    ELSE IF StartsWith(data, S_OFF) THEN Done(Drop(data, Len(S_OFF)), FALSE)
    ELSE Fail

\* usize::from_str_radix fails on the empty string (and on overflow, which
\* needs more than the 9 digits the lines of this model carry).
buffer(data) ==
    IF ~StartsWith(data, S_BUFFER) THEN Fail
    ELSE LET rest == Drop(data, Len(S_BUFFER))
             n == PrefixLen(rest, Digits)
         IN IF n = 0 \/ n > 9 THEN Fail
            ELSE Done(Drop(rest, n),
                      [kind |-> "Buffer", bytes_remaining |-> DecimalValue(SubSeq(rest, 1, n))])

busy_state(data) ==
    IF ~StartsWith(data, S_BUSY) THEN Fail
    ELSE LET r == on_or_off(Drop(data, Len(S_BUSY)))
         IN IF ~r.ok THEN Fail
            ELSE Done(r.rest, IF r.val THEN "Busy" ELSE "NotBusy")

transmit_state(data) ==
    IF ~StartsWith(data, S_PTT) THEN Fail
    ELSE LET r == on_or_off(Drop(data, Len(S_PTT)))
         IN IF ~r.ok THEN Fail
            ELSE Done(r.rest, IF r.val THEN "Transmit" ELSE "Receive")

\* take_while_m_n(3, 7, upper-case letter or digit); no pattern check
callsign(s) ==
    LET n == PrefixLen(s, Upper \cup Digits)
        m == IF n > 7 THEN 7 ELSE n
    IN IF m < 3 THEN Fail ELSE Done(Drop(s, m), SubSeq(s, 1, m))

connected(data) ==
    IF ~StartsWith(data, S_CONNECTED) THEN Fail
    ELSE LET a == callsign(Drop(data, Len(S_CONNECTED)))
         IN IF ~a.ok THEN Fail
            ELSE IF ~StartsWith(a.rest, <<SP>>) THEN Fail
            ELSE LET b == callsign(Drop(a.rest, 1))
                 IN IF ~b.ok THEN Fail
                    ELSE Done(b.rest, [state |-> "Connected", my_station |-> a.val,
                                       other_station |-> b.val])

connection_state(data) ==
    IF StartsWith(data, S_DISCONNECTED)
    THEN Done(Drop(data, Len(S_DISCONNECTED)), [state |-> "Disconnected"])
    ELSE IF StartsWith(data, S_PENDING)
    THEN Done(Drop(data, Len(S_PENDING)), [state |-> "Pending"])
    ELSE IF StartsWith(data, S_CANCELPENDING)
    THEN Done(Drop(data, Len(S_CANCELPENDING)), [state |-> "Canceled"])
    ELSE connected(data)

registered(data) ==
    IF ~StartsWith(data, S_REGISTERED) THEN Fail
    ELSE LET c == callsign(Drop(data, Len(S_REGISTERED)))
         IN IF ~c.ok THEN Fail
            ELSE Done(c.rest, [kind |-> "Registered", my_call |-> c.val])

\* alt((IAMALIVE, buffer, busy_state, connection_state, transmit_state, registered))
update(data) ==
    IF StartsWith(data, S_IAMALIVE)
    THEN Done(Drop(data, Len(S_IAMALIVE)), [kind |-> "Heartbeat"])
    ELSE IF buffer(data).ok THEN buffer(data)
    ELSE IF busy_state(data).ok
    THEN Done(busy_state(data).rest, [kind |-> "Busy", state |-> busy_state(data).val])
    ELSE IF connection_state(data).ok
    THEN Done(connection_state(data).rest,
              [kind |-> "Connection", state |-> connection_state(data).val])
    ELSE IF transmit_state(data).ok
    THEN Done(transmit_state(data).rest,
              [kind |-> "TransceiverControl", control |-> transmit_state(data).val])
    ELSE registered(data)

\* alt((command_result, update)) under all_consuming, as do_a_thing calls it
tnc_response(ln) ==
    LET r == command_result(ln)
        u == update(ln)
    IN IF r.ok
       THEN (IF r.rest = <<>> THEN Done(<<>>, [kind |-> "CommandResult", result |-> r.val])
             ELSE Fail)
       ELSE IF u.ok /\ u.rest = <<>> THEN u
       ELSE Fail

\* terminated(take_until1("\r"), tag("\r")), streaming
line(data) ==
    LET crs == {i \in 1..Len(data) : data[i] = CR}
    IN IF crs = {} THEN [ok |-> FALSE, incomplete |-> TRUE]
       ELSE IF MinOf(crs) = 1 THEN [ok |-> FALSE, incomplete |-> FALSE]
       ELSE [ok |-> TRUE, rest |-> Drop(data, MinOf(crs)),
             val |-> SubSeq(data, 1, MinOf(crs) - 1)]

\* ------------------------------------------------------------------------
\* Commands and their wire form (impl Display)
\* ------------------------------------------------------------------------
S_LISTEN == <<76, 73, 83, 84, 69, 78, 32>>
S_CONNECT == <<67, 79, 78, 78, 69, 67, 84, 32>>
S_DISCONNECT == <<68, 73, 83, 67, 79, 78, 78, 69, 67, 84>>
S_ABORT == <<65, 66, 79, 82, 84>>
S_MYCALL == <<77, 89, 67, 65, 76, 76, 32>>
S_COMPRESSION == <<67, 79, 77, 80, 82, 69, 83, 83, 73, 79, 78, 32>>
S_BW == <<66, 87>>
KC1GSL == <<75, 67, 49, 71, 83, 76>>
KW1U == <<75, 87, 49, 85>>

CompressionModeStr(m) ==
    CASE m = "Off" -> S_OFF
      [] m = "Text" -> <<84, 69, 88, 84>>
      [] m = "Files" -> <<70, 73, 76, 69, 83>>

BandwidthModeStr(m) ==
    CASE m = "Narrow" -> <<53, 48, 48>>
      [] m = "Wide" -> <<50, 51, 48, 48>>
      [] m = "Tactical" -> <<50, 55, 53, 48>>

ListenModeStr(m) ==
    CASE m = "Disable" -> S_OFF
      [] m = "CQ" -> <<67, 81>>
      [] m = "Enable" -> S_ON

RECURSIVE JoinCalls(_)
JoinCalls(ids) ==
    IF ids = <<>> THEN <<>> ELSE <<SP>> \o Head(ids) \o JoinCalls(Tail(ids))

ConnectPathStr(p) ==
    CASE p.hops = "Direct" -> <<>>
      [] p.hops = "OneHop" -> <<32, 118, 105, 97, 32>> \o p.digipeater
      [] p.hops = "TwoHops" -> <<118, 105, 97, 32>> \o p.first \o <<SP>> \o p.second

CommandStr(c) ==
    CASE c.op = "Listen" -> S_LISTEN \o ListenModeStr(c.mode)
      [] c.op = "Connect" ->
            S_CONNECT \o c.origin \o <<SP>> \o c.target \o ConnectPathStr(c.path)
      [] c.op = "Disconnect" -> S_DISCONNECT
      [] c.op = "Abort" -> S_ABORT
      [] c.op = "SetCall" -> S_MYCALL \o c.primary \o JoinCalls(c.aliases)
      [] c.op = "SetCompression" -> S_COMPRESSION \o CompressionModeStr(c.mode)
      [] c.op = "SetBandwidth" -> S_BW \o BandwidthModeStr(c.mode)

\* commands the clients of this model submit through send_command
ClientCommands ==
    { [op |-> "Abort"], [op |-> "SetBandwidth", mode |-> "Wide"] }

ConnectCmd ==
    [op |-> "Connect", origin |-> KC1GSL, target |-> KW1U, path |-> [hops |-> "Direct"]]

\* ------------------------------------------------------------------------
\* do_a_thing: consume the complete lines of the buffer
\* ------------------------------------------------------------------------
\* channel(): the initial value of every watch channel
channel ==
    [ calls |-> {},
      busy_state |-> "NotBusy",
      buffer |-> 0,
      registered_calls |-> {},
      last_heartbeat |-> 0,
      connection |-> [state |-> "Disconnected"],
      connVersion |-> 0,
      transceiver_control |-> "Receive",
      remote_registration |-> "Unregistered" ]

\* mutant of ApplyUpdate: a BUSY line also resets the buffer level
ApplyUpdate_busy_resets_buffer(t, u) ==
    CASE u.kind = "Heartbeat" -> [t EXCEPT !.last_heartbeat = @ + 1]
      [] u.kind = "Buffer" -> [t EXCEPT !.buffer = u.bytes_remaining]
      [] u.kind = "Busy" -> [t EXCEPT !.busy_state = u.state, !.buffer = 0]
      [] u.kind = "Registered" ->
            [t EXCEPT !.calls = @ \cup {u.my_call},
                      !.registered_calls = t.calls \cup {u.my_call}]
      [] u.kind = "Connection" ->
            [t EXCEPT !.connection = u.state, !.connVersion = @ + 1]
      [] u.kind = "TransceiverControl" -> [t EXCEPT !.transceiver_control = u.control]

\* the match on Update in do_a_thing; watch::Sender::send_replace stores the
\* value and advances the channel's version
ApplyUpdate(t, u) ==
    CASE u.kind = "Heartbeat" -> [t EXCEPT !.last_heartbeat = @ + 1]
      [] u.kind = "Buffer" -> [t EXCEPT !.buffer = u.bytes_remaining]
      [] u.kind = "Busy" -> [t EXCEPT !.busy_state = u.state]
      [] u.kind = "Registered" ->
            [t EXCEPT !.calls = @ \cup {u.my_call},
                      !.registered_calls = t.calls \cup {u.my_call}]
      [] u.kind = "Connection" ->
            [t EXCEPT !.connection = u.state, !.connVersion = @ + 1]
      [] u.kind = "TransceiverControl" -> [t EXCEPT !.transceiver_control = u.control]

\* the while loop of do_a_thing over the buffer: data is what is left, t the
\* status sender, acks to_acknowledge, n the lines consumed so far
RECURSIVE ProcessLines(_, _, _, _)

\* mutant of ProcessResponse: an update is consumed without being applied
ProcessResponse_update_lost(l, resp, t, acks, n) ==
    IF ~resp.ok
    THEN [err |-> TRUE, data |-> l.rest, tx |-> t, acks |-> <<>>, n |-> n + 1]
    ELSE IF resp.val.kind = "CommandResult"
    THEN ProcessLines(l.rest, t, Append(acks, resp.val.result), n + 1)
    ELSE ProcessLines(l.rest, t, acks, n + 1)

\* the body of the loop once tnc_response has parsed the line l
ProcessResponse(l, resp, t, acks, n) ==
    IF ~resp.ok
    THEN [err |-> TRUE, data |-> l.rest, tx |-> t, acks |-> <<>>, n |-> n + 1]
    ELSE IF resp.val.kind = "CommandResult"
    THEN ProcessLines(l.rest, t, Append(acks, resp.val.result), n + 1)
    ELSE ProcessLines(l.rest, ApplyUpdate(t, resp.val), acks, n + 1)

\* the match on the result l of line(data)
ProcessLine(l, data, t, acks, n) ==
    IF l.ok
    THEN CHOOSE r \in {ProcessResponse(l, resp, t, acks, n) :
                          resp \in {tnc_response(l.val)}} : TRUE
    ELSE IF l.incomplete
    THEN [err |-> FALSE, data |-> data, tx |-> t, acks |-> acks, n |-> n]
    ELSE [err |-> TRUE, data |-> data, tx |-> t, acks |-> <<>>, n |-> n]

ProcessLines(data, t, acks, n) ==
    IF data = <<>> THEN [err |-> FALSE, data |-> data, tx |-> t, acks |-> acks, n |-> n]
    ELSE CHOOSE r \in {ProcessLine(l, data, t, acks, n) : l \in {line(data)}} : TRUE

\* mutant of do_a_thing: the buffer is cleared after every read
do_a_thing_clears_buffer(buf, bytes, t, n) ==
    [ProcessLines(buf \o bytes, t, <<>>, n) EXCEPT !.data = <<>>]

\* do_a_thing after try_read_buf has appended `bytes` to upd_buffer; the
\* bytes kept in the buffer are those of the trailing incomplete line
do_a_thing(buf, bytes, t, n) == ProcessLines(buf \o bytes, t, <<>>, n)

\* oneshot::Sender::send: the value reaches the receiver unless it was dropped
ReplySend(reps, k, result, loop) ==
    [reps EXCEPT ![k].sent = result,
                 ![k].loop = loop,
                 ![k].val = IF reps[k].rx = "alive" THEN result ELSE @]

\* mutant of DeliverResults: pop_back in place of pop_front
RECURSIVE DeliverResults_pop_back(_, _, _, _)
DeliverResults_pop_back(queue, reps, results, loop) ==
    IF results = <<>> THEN [queue |-> queue, replies |-> reps]
    ELSE IF queue = <<>> THEN DeliverResults_pop_back(queue, reps, Tail(results), loop)
    ELSE DeliverResults_pop_back(SubSeq(queue, 1, Len(queue) - 1),
                                 ReplySend(reps, queue[Len(queue)], Head(results), loop),
                                 Tail(results), loop)

\* mutant of DeliverResults: a slot whose receiver was dropped is popped
\* without taking a result
RECURSIVE DeliverResults_skip_dropped(_, _, _, _)
DeliverResults_skip_dropped(queue, reps, results, loop) ==
    IF results = <<>> THEN [queue |-> queue, replies |-> reps]
    ELSE IF queue = <<>> THEN DeliverResults_skip_dropped(queue, reps, Tail(results), loop)
    ELSE IF reps[Head(queue)].rx = "dropped"
    THEN DeliverResults_skip_dropped(Tail(queue), reps, results, loop)
    ELSE DeliverResults_skip_dropped(Tail(queue),
                                     ReplySend(reps, Head(queue), Head(results), loop),
                                     Tail(results), loop)

\* for result in results { response_queue.pop_front() ... reply.send(result) },
\* in the main loop or in the drain loop of manage_modem_thread
RECURSIVE DeliverResults(_, _, _, _)
DeliverResults(queue, reps, results, loop) ==
    IF results = <<>> THEN [queue |-> queue, replies |-> reps]
    ELSE IF queue = <<>> THEN DeliverResults(queue, reps, Tail(results), loop)
    ELSE DeliverResults(Tail(queue), ReplySend(reps, Head(queue), Head(results), loop),
                        Tail(results), loop)

\* mutant of QueueDrained: the drain loop is skipped
QueueDrained_always(queue) == TRUE

\* while !response_queue.is_empty(): the test that ends the drain loop
QueueDrained(queue) == queue = <<>>

\* the task ends: the receiver of the command channel and the queued reply
\* slots are dropped, which their receivers observe as a closed channel
DropSlots(reps, ids) ==
    [k \in DOMAIN reps |->
        IF k \in ids /\ reps[k].val = "none" /\ reps[k].sent = "none"
        THEN [reps[k] EXCEPT !.val = "closed"] ELSE reps[k]]

SeqRange(s) == {s[i] : i \in 1..Len(s)}

Running == ctlPc \in {"main", "drain"}

\* ------------------------------------------------------------------------
\* The controller task: manage_modem_thread
\* ------------------------------------------------------------------------
ChanCap == 1

NewSlot(cmd, origin, sess) ==
    [cmd |-> cmd, origin |-> origin, sess |-> sess, rx |-> "alive",
     val |-> "none", sent |-> "none", loop |-> "none"]

\* select! branch rx.recv() => Some((command, reply))
CtlRecv ==
    /\ ctlPc = "main"
    /\ chan # <<>>
    /\ response_queue' = Append(response_queue, Head(chan))
    /\ chan' = Tail(chan)
    /\ sockOut' = sockOut \o CommandStr(replies[Head(chan)].cmd) \o <<CR>>
    /\ UNCHANGED <<ctlPc, upd_buffer, tx, inputOpen, replies, sockIn, tncLog,
                   tncAnswers, nProc, user, fdc, rdc, frame, codec, fn>>

\* select! branch rx.recv() => None, then the test of the drain loop
CtlInputClosed ==
    /\ ctlPc = "main"
    /\ ~inputOpen
    /\ chan = <<>>
    /\ ctlPc' = IF QueueDrained(response_queue) THEN "Ok" ELSE "drain"
    /\ UNCHANGED <<response_queue, upd_buffer, tx, chan, inputOpen, replies, sockOut,
                   sockIn, tncLog, tncAnswers, nProc, user, fdc, rdc, frame, codec, fn>>

\* how many of the bytes in flight one try_read_buf returns: all of them, or
\* all but the terminator of the last line (which stays in upd_buffer)
ReadCuts(bytes) == {Len(bytes)} \cup {i \in 1..Len(bytes) : i = Len(bytes) - 1}

\* select! branch stream.readable(): do_a_thing, then the replies
CtlRead ==
    /\ ctlPc = "main"
    /\ sockIn # <<>>
    /\ \E cut \in ReadCuts(sockIn) :
        \E r \in {do_a_thing(upd_buffer, SubSeq(sockIn, 1, cut), tx, nProc)} :
        \E d \in {DeliverResults(response_queue, replies, r.acks, "main")} :
           /\ sockIn' = Drop(sockIn, cut)
           /\ tx' = r.tx
           /\ nProc' = r.n
           /\ IF r.err
              THEN /\ ctlPc' = "ParseError"
                   /\ replies' = DropSlots(replies, SeqRange(response_queue) \cup SeqRange(chan))
                   /\ UNCHANGED <<response_queue, upd_buffer>>
              ELSE /\ ctlPc' = "main"
                   /\ upd_buffer' = r.data
                   /\ response_queue' = d.queue
                   /\ replies' = d.replies
    /\ UNCHANGED <<chan, inputOpen, sockOut, tncLog, tncAnswers, user, fdc, rdc,
                   frame, codec, fn>>

\* the loop that follows the closing of the command channel
CtlDrainRead ==
    /\ ctlPc = "drain"
    /\ sockIn # <<>>
    /\ \E cut \in ReadCuts(sockIn) :
        \E r \in {do_a_thing(upd_buffer, SubSeq(sockIn, 1, cut), tx, nProc)} :
        \E d \in {DeliverResults(response_queue, replies, r.acks, "drain")} :
           /\ sockIn' = Drop(sockIn, cut)
           /\ tx' = r.tx
           /\ nProc' = r.n
           /\ IF r.err
              THEN /\ ctlPc' = "ParseError"
                   /\ replies' = DropSlots(replies, SeqRange(response_queue))
                   /\ UNCHANGED <<response_queue, upd_buffer>>
              ELSE /\ ctlPc' = IF QueueDrained(d.queue) THEN "Ok" ELSE "drain"
                   /\ upd_buffer' = r.data
                   /\ response_queue' = d.queue
                   /\ replies' = d.replies
    /\ UNCHANGED <<chan, inputOpen, sockOut, tncLog, tncAnswers, user, fdc, rdc,
                   frame, codec, fn>>

\* an error of the control socket (stream.writable, write_all, try_read_buf)
\* leaves the task through `?`
CtlIoError ==
    /\ Running
    /\ ctlPc' = "IoError"
    /\ replies' = DropSlots(replies, SeqRange(response_queue) \cup SeqRange(chan))
    /\ UNCHANGED <<response_queue, upd_buffer, tx, chan, inputOpen, sockOut, sockIn,
                   tncLog, tncAnswers, nProc, user, fdc, rdc, frame, codec, fn>>

\* ------------------------------------------------------------------------
\* The TNC
\* ------------------------------------------------------------------------
S_JUNK == <<83, 78, 32, 49, 48>>

\* lines the TNC sends on its own
TncLines ==
    { S_DISCONNECTED, S_PENDING, S_CONNECTED \o KC1GSL \o <<SP>> \o KW1U,
      S_JUNK }

Unsolicited == {i \in 1..Len(tncLog) : tncLog[i] \notin {S_OK, S_WRONG}}

\* the TNC answers the oldest command it has not answered yet
TncRespond ==
    /\ Running
    /\ \E i \in 1..Len(sockOut) :
        /\ sockOut[i] = CR
        /\ \A j \in 1..(i - 1) : sockOut[j] # CR
        /\ \E res \in {"Ok", "Wrong"} :
            LET ln == IF res = "Ok" THEN S_OK ELSE S_WRONG
            IN /\ sockOut' = Drop(sockOut, i)
               /\ sockIn' = sockIn \o ln \o <<CR>>
               /\ tncLog' = Append(tncLog, ln)
               /\ tncAnswers' = Append(tncAnswers,
                      [cmd |-> SubSeq(sockOut, 1, i - 1), res |-> res,
                       at |-> Len(tncLog) + 1])
    /\ UNCHANGED <<ctlPc, response_queue, upd_buffer, tx, chan, inputOpen, replies,
                   nProc, user, fdc, rdc, frame, codec, fn>>

TncUpdate ==
    /\ Running
    /\ Cardinality(Unsolicited) < MaxUpdates
    /\ \E ln \in TncLines :
        /\ sockIn' = sockIn \o ln \o <<CR>>
        /\ tncLog' = Append(tncLog, ln)
    /\ UNCHANGED <<ctlPc, response_queue, upd_buffer, tx, chan, inputOpen, replies,
                   sockOut, tncAnswers, nProc, user, fdc, rdc, frame, codec, fn>>

\* ------------------------------------------------------------------------
\* Clients of the controller: VaraTnc::send_command
\* ------------------------------------------------------------------------
\* mutant of SendCommandResult: the comparison with CommandResult::Ok is lost
SendCommandResult_any_reply_ok(k) ==
    CASE replies[k].val = "none" -> "pending"
      [] replies[k].val = "closed" -> "Err"
      [] OTHER -> "Ok"

\* what send_command returns for the command of slot k
SendCommandResult(k) ==
    CASE replies[k].val = "none" -> "pending"
      [] replies[k].val = "closed" -> "Err"
      [] replies[k].val = "Wrong" -> "Err"
      [] replies[k].val = "Ok" -> "Ok"

Awaiting(k) == replies[k].rx = "alive" /\ replies[k].val = "none"
SlotsOf(origin) == {k \in 1..Len(replies) : replies[k].origin = origin}

\* send_command up to the completion of control_channel.send
ClientSubmit ==
    /\ inputOpen
    /\ Running
    /\ user.pc = "idle"
    /\ Len(replies) < MaxCmds
    /\ Len(chan) < ChanCap
    /\ \E cmd \in ClientCommands :
        /\ replies' = Append(replies, NewSlot(cmd, "client", 0))
        /\ chan' = Append(chan, Len(replies) + 1)
    /\ UNCHANGED <<ctlPc, response_queue, upd_buffer, tx, inputOpen, sockOut, sockIn,
                   tncLog, tncAnswers, nProc, user, fdc, rdc, frame, codec, fn>>

\* the future of send_command is dropped while it awaits the reply
ClientCancel ==
    /\ \E k \in SlotsOf("client") :
        /\ Awaiting(k)
        /\ replies' = [replies EXCEPT ![k].rx = "dropped"]
    /\ UNCHANGED <<ctlPc, response_queue, upd_buffer, tx, chan, inputOpen, sockOut,
                   sockIn, tncLog, tncAnswers, nProc, user, fdc, rdc, frame, codec, fn>>

\* the VaraTnc is dropped and with it the last Sender of the command channel
CloseInput ==
    /\ inputOpen
    /\ user.pc = "idle"
    /\ \A k \in SlotsOf("client") : ~Awaiting(k)
    /\ \A s \in DOMAIN fdc : fdc[s].st \notin {"waiting", "signalled", "awaiting"}
    /\ inputOpen' = FALSE
    /\ UNCHANGED <<ctlPc, response_queue, upd_buffer, tx, chan, replies, sockOut,
                   sockIn, tncLog, tncAnswers, nProc, user, fdc, rdc, frame, codec, fn>>

\* ------------------------------------------------------------------------
\* VaraTnc::connect
\* ------------------------------------------------------------------------
IsConnected(c) == c.state = "Connected"
IsDisconnected(c) == c.state = "Disconnected"

ConnectSubmit ==
    /\ inputOpen
    /\ Running
    /\ user.pc = "idle"
    /\ user.sess < MaxSessions
    /\ Len(replies) + 1 < MaxCmds
    /\ \A k \in SlotsOf("client") : ~Awaiting(k)
    /\ Len(chan) < ChanCap
    /\ replies' = Append(replies, NewSlot(ConnectCmd, "connect", user.sess + 1))
    /\ chan' = Append(chan, Len(replies) + 1)
    /\ user' = [user EXCEPT !.pc = "wait_reply", !.sess = @ + 1,
                            !.slot = Len(replies) + 1, !.ops = 0,
                            !.io = [kind |-> "none", res |-> "none", signalled |-> FALSE],
                            !.hist[user.sess + 1].subAt = nProc]
    /\ UNCHANGED <<ctlPc, response_queue, upd_buffer, tx, inputOpen, sockOut, sockIn,
                   tncLog, tncAnswers, nProc, fdc, rdc, frame, codec, fn>>

\* connection.changed() has returned Ok: the value is read and connect returns
ConnectResolved ==
    LET s == user.sess
        up == IsConnected(tx.connection)
    IN /\ user' = [user EXCEPT !.seen = tx.connVersion,
                               !.pc = IF up THEN "stream" ELSE "idle",
                               !.hist[s] = [slot |-> user.slot,
                                            result |-> IF up THEN "stream" ELSE "err",
                                            resAt |-> nProc,
                                            subAt |-> user.hist[s].subAt]]
       /\ rdc' = IF up
                 THEN [rdc EXCEPT ![s] = [st |-> "watching", seen |-> tx.connVersion,
                                          chan |-> "empty"]]
                 ELSE rdc
       /\ fdc' = [fdc EXCEPT ![s].st = IF up THEN "waiting" ELSE "ended"]

\* connect returns an error through `?`
ConnectFailed(spawned) ==
    LET s == user.sess
    IN /\ user' = [user EXCEPT !.pc = "idle",
                               !.hist[s] = [slot |-> user.slot, result |-> "err",
                                            resAt |-> nProc,
                                            subAt |-> user.hist[s].subAt]]
       /\ fdc' = IF spawned THEN [fdc EXCEPT ![s].st = "ended"] ELSE fdc
       /\ rdc' = rdc

\* the reply of the CONNECT command arrives; force_dc is spawned and
\* connection.changed() is polled for the first time
ConnectReply ==
    /\ user.pc = "wait_reply"
    /\ SendCommandResult(user.slot) # "pending"
    /\ IF SendCommandResult(user.slot) = "Err" THEN ConnectFailed(FALSE)
       ELSE IF tx.connVersion # user.seen THEN ConnectResolved
       ELSE IF ~Running THEN ConnectFailed(TRUE)
       ELSE /\ user' = [user EXCEPT !.pc = "wait_change"]
            /\ fdc' = [fdc EXCEPT ![user.sess].st = "waiting"]
            /\ rdc' = rdc
    /\ UNCHANGED <<ctlPc, response_queue, upd_buffer, tx, chan, inputOpen, replies,
                   sockOut, sockIn, tncLog, tncAnswers, nProc, frame, codec, fn>>

\* connection.changed() completes later
ConnectChanged ==
    /\ user.pc = "wait_change"
    /\ tx.connVersion # user.seen \/ ~Running
    /\ IF tx.connVersion # user.seen THEN ConnectResolved ELSE ConnectFailed(TRUE)
    /\ UNCHANGED <<ctlPc, response_queue, upd_buffer, tx, chan, inputOpen, replies,
                   sockOut, sockIn, tncLog, tncAnswers, nProc, frame, codec, fn>>

\* ------------------------------------------------------------------------
\* VaraStream and the tasks connect spawns
\* ------------------------------------------------------------------------
\* Pin::new(this.remote_disconnect).poll(cx) on the oneshot::Receiver: a
\* receiver that has yielded its value panics when it is polled again
poll_remote_disconnect(ch) ==
    CASE ch = "empty" -> "Pending"
      [] ch = "sent" -> "Ready"
      [] ch = "taken" -> "panic"

\* one poll of the stream: `ready` is what the function returns when the
\* remote disconnect is Ready, otherwise the call goes to the data socket
StreamPoll(kind, ready) ==
    LET s == user.sess
        p == poll_remote_disconnect(rdc[s].chan)
        res == CASE p = "Pending" -> "socket"
                 [] p = "Ready" -> ready
                 [] p = "panic" -> "panic"
    IN /\ user' = [user EXCEPT !.ops = @ + 1,
                               !.io = [kind |-> kind, res |-> res,
                                       signalled |-> rdc[s].chan # "empty"],
                               !.pc = IF res = "panic" THEN "unwinding" ELSE @]
       /\ rdc' = [rdc EXCEPT ![s].chan = IF p = "Ready" THEN "taken" ELSE @]
       /\ UNCHANGED <<ctlPc, response_queue, upd_buffer, tx, chan, inputOpen, replies,
                      sockOut, sockIn, tncLog, tncAnswers, nProc, fdc, frame, codec, fn>>

\* AsyncRead::poll_read
StreamRead ==
    /\ user.pc = "stream"
    /\ user.ops < MaxOps
    /\ StreamPoll("read", "eof")

\* AsyncWrite::poll_write, poll_flush, poll_shutdown, poll_write_vectored
StreamWrite ==
    /\ user.pc = "stream"
    /\ user.ops < MaxOps
    /\ StreamPoll("write", "aborted")

\* mutant of ForceDisconnect: the stream signals force_dc on every drop
ForceDisconnect_always(conn) == TRUE

\* if !self.tnc.status.connection.borrow().is_disconnected()
ForceDisconnect(conn) == ~IsDisconnected(conn)

\* PinnedDrop for VaraStream
DropStream ==
    LET s == user.sess
    IN /\ user.pc \in {"stream", "unwinding"}
       /\ fdc' = [fdc EXCEPT ![s].st = IF ForceDisconnect(tx.connection)
                                        THEN "signalled" ELSE "ended",
                             ![s].dropConn = tx.connection.state]
       /\ rdc' = [rdc EXCEPT ![s].chan = "dropped"]
       /\ user' = [user EXCEPT !.pc = "idle"]
       /\ UNCHANGED <<ctlPc, response_queue, upd_buffer, tx, chan, inputOpen, replies,
                      sockOut, sockIn, tncLog, tncAnswers, nProc, frame, codec, fn>>

\* the remote_dc task: one turn of its loop
RemoteDcStep ==
    /\ \E s \in DOMAIN rdc :
        /\ rdc[s].st = "watching"
        /\ tx.connVersion # rdc[s].seen
        /\ rdc' = [rdc EXCEPT
               ![s].seen = tx.connVersion,
               ![s].st = IF IsDisconnected(tx.connection) THEN "done" ELSE "watching",
               ![s].chan = IF IsDisconnected(tx.connection) /\ @ = "empty"
                           THEN "sent" ELSE @]
    /\ UNCHANGED <<ctlPc, response_queue, upd_buffer, tx, chan, inputOpen, replies,
                   sockOut, sockIn, tncLog, tncAnswers, nProc, user, fdc, frame, codec, fn>>

\* the force_dc task after force_disconnect has fired: cloned_control.send
FdcSend ==
    /\ \E s \in DOMAIN fdc :
        /\ fdc[s].st = "signalled"
        /\ IF Running
           THEN /\ Len(chan) < ChanCap
                /\ replies' = Append(replies, NewSlot([op |-> "Disconnect"], "force_dc", s))
                /\ chan' = Append(chan, Len(replies) + 1)
                /\ fdc' = [fdc EXCEPT ![s].st = "awaiting", ![s].slot = Len(replies) + 1]
           ELSE /\ fdc' = [fdc EXCEPT ![s].st = "done", ![s].ctlUp = FALSE]
                /\ UNCHANGED <<replies, chan>>
    /\ UNCHANGED <<ctlPc, response_queue, upd_buffer, tx, inputOpen, sockOut, sockIn,
                   tncLog, tncAnswers, nProc, user, rdc, frame, codec, fn>>

\* the force_dc task: rx.await completes
FdcDone ==
    /\ \E s \in DOMAIN fdc :
        /\ fdc[s].st = "awaiting"
        /\ replies[fdc[s].slot].val # "none"
        /\ fdc' = [fdc EXCEPT ![s].st = "done"]
    /\ UNCHANGED <<ctlPc, response_queue, upd_buffer, tx, chan, inputOpen, replies,
                   sockOut, sockIn, tncLog, tncAnswers, nProc, user, rdc, frame, codec, fn>>

\* ------------------------------------------------------------------------
\* Specification of the controller
\* ------------------------------------------------------------------------
InitController ==
    /\ ctlPc = "main"
    /\ response_queue = <<>>
    /\ upd_buffer = <<>>
    /\ tx = channel
    /\ chan = <<>>
    /\ inputOpen = TRUE
    /\ replies = <<>>
    /\ sockOut = <<>>
    /\ sockIn = <<>>
    /\ tncLog = <<>>
    /\ tncAnswers = <<>>
    /\ nProc = 0
    /\ user = [pc |-> "idle", sess |-> 0, seen |-> 0, slot |-> 0, ops |-> 0,
               io |-> [kind |-> "none", res |-> "none", signalled |-> FALSE],
               hist |-> [s \in 1..MaxSessions |->
                            [slot |-> 0, result |-> "none", resAt |-> 0,
                             subAt |-> 0]]]
    /\ fdc = [s \in 1..MaxSessions |->
                 [st |-> "none", slot |-> 0, dropConn |-> "none", ctlUp |-> TRUE]]
    /\ rdc = [s \in 1..MaxSessions |-> [st |-> "none", seen |-> 0, chan |-> "empty"]]

Init ==
    /\ InitController
    /\ frame = [pc |-> "off"]
    /\ codec = [pc |-> "off"]
    /\ fn = [pc |-> "off"]

Next ==
    \/ CtlRecv
    \/ CtlInputClosed
    \/ CtlRead
    \/ CtlDrainRead
    \/ CtlIoError
    \/ TncRespond
    \/ TncUpdate
    \/ ClientSubmit
    \/ ClientCancel
    \/ CloseInput
    \/ ConnectSubmit
    \/ ConnectReply
    \/ ConnectChanged
    \/ StreamRead
    \/ StreamWrite
    \/ DropStream
    \/ RemoteDcStep
    \/ FdcSend
    \/ FdcDone

Spec == Init /\ [][Next]_vars

\* ------------------------------------------------------------------------
\* Properties of the controller
\* ------------------------------------------------------------------------
\* the control lines that carry a connection state
IsConnectionLine(ln) ==
    tnc_response(ln).ok /\ tnc_response(ln).val.kind = "Connection"
IsConnectedLine(ln) ==
    IsConnectionLine(ln) /\ IsConnected(tnc_response(ln).val.state)
IsDisconnectedLine(ln) ==
    IsConnectionLine(ln) /\ IsDisconnected(tnc_response(ln).val.state)

Delivered(k) == replies[k].sent # "none"

\* C1: the k-th command the TNC receives is the k-th command submitted, and
\* the result handed to the k-th reply slot (and so to its submitter) is the
\* k-th OK/WRONG the TNC sent.
C1_ControllerFifo ==
    /\ \A j \in 1..Len(tncAnswers) :
          j <= Len(replies) /\ tncAnswers[j].cmd = CommandStr(replies[j].cmd)
    /\ \A k \in 1..Len(replies) :
          /\ Delivered(k) =>
                k <= Len(tncAnswers) /\ replies[k].sent = tncAnswers[k].res
          /\ replies[k].val \in {"Ok", "Wrong"} =>
                k <= Len(tncAnswers) /\ replies[k].val = tncAnswers[k].res

\* two different commands, answered WRONG then OK, both delivered to
\* submitters that were still waiting
C1_Witness ==
    /\ Len(replies) >= 2
    /\ replies[1].cmd # replies[2].cmd
    /\ replies[1].val = "Wrong"
    /\ replies[2].val = "Ok"
    /\ replies[1].loop = "main" /\ replies[2].loop = "main"

\* C2: a connect whose CONNECT was answered OK has resolved only after a
\* connection line that the controller processed after that OK, and it
\* returned a stream exactly when the first such line was CONNECTED.
C2_ConnectFirstTransitionAfterOk ==
    \A s \in 1..MaxSessions :
        LET h == user.hist[s]
        IN (h.result # "none" /\ replies[h.slot].val = "Ok") =>
              LET post == {i \in (tncAnswers[h.slot].at + 1)..h.resAt :
                              IsConnectionLine(tncLog[i])}
              IN /\ post # {}
                 /\ (h.result = "stream") <=> IsConnectedLine(tncLog[MinOf(post)])

\* C3: a call on the stream made after the remote disconnect has been
\* signalled to it completes with EOF (read) or ConnectionAborted (write).
C3_EveryCallAfterDisconnect ==
    (user.io.kind # "none" /\ user.io.signalled) =>
        user.io.res = (IF user.io.kind = "read" THEN "eof" ELSE "aborted")

\* C7: after a line that is no response of the grammar has been processed
\* the controller is still running (or has ended for another reason).
C7_UnknownLineDropped ==
    (\E i \in 1..nProc : ~tnc_response(tncLog[i]).ok) => ctlPc # "ParseError"

\* C8: the step that delivers a WRONG makes send_command return an error,
\* leaves the controller running and takes from the queue only the slots it
\* answers, leaving the slots behind them untouched;
\* a later command answered OK is delivered to its submitter as success.
C8_Step ==
    /\ \A k \in 1..Len(replies) :
          (~Delivered(k) /\ replies'[k].sent = "Wrong") =>
             /\ replies[k].rx = "alive" => SendCommandResult(k)' = "Err"
             /\ ctlPc' \in {"main", "drain", "Ok"}
             /\ \E i \in 1..Len(response_queue), m \in 1..Len(response_queue) :
                   /\ response_queue[i] = k /\ i <= m
                   /\ response_queue' = SubSeq(response_queue, m + 1, Len(response_queue))
                   /\ \A j \in 1..m : replies'[response_queue[j]].sent # "none"
                   /\ \A j \in (m + 1)..Len(response_queue) :
                         replies'[response_queue[j]] = replies[response_queue[j]]
    /\ \A k \in 1..Len(replies), j \in 1..Len(replies) :
          (k < j /\ replies[k].sent = "Wrong" /\ ~Delivered(j) /\ replies[j].rx = "alive"
                 /\ replies'[j].sent = "Ok") => SendCommandResult(j)' = "Ok"

C8_WrongDoesNotPoison == [][C8_Step]_vars

\* a WRONG for the first command was followed by an OK for the second, both
\* awaited, and the controller is running
C8_Witness ==
    /\ Len(replies) >= 2
    /\ replies[1].val = "Wrong" /\ SendCommandResult(1) = "Err"
    /\ replies[2].val = "Ok" /\ SendCommandResult(2) = "Ok"
    /\ Running

\* C9: the controller ends with Ok only when the command channel is closed
\* and every command it took has had its result delivered, in order, the
\* ones pending at the close by the drain loop; while it drains, the queue
\* is not empty.
C9_DrainBeforeExit ==
    /\ ctlPc = "drain" => ~inputOpen /\ response_queue # <<>>
    /\ ctlPc = "Ok" =>
          /\ ~inputOpen
          /\ response_queue = <<>>
          /\ \A k \in 1..Len(replies) :
                (replies[k].val # "closed") =>
                   /\ Delivered(k)
                   /\ replies[k].sent = tncAnswers[k].res
                   /\ \A j \in 1..(k - 1) :
                         replies[k].loop = "main" => replies[j].loop = "main"

\* the channel was closed with two replies pending, and both were delivered
\* by the drain loop before the controller ended with Ok
C9_Witness ==
    /\ ctlPc = "Ok"
    /\ Len(replies) = 2
    /\ replies[1].loop = "drain" /\ replies[2].loop = "drain"

\* Disconnect commands submitted by the force_dc task of session s
DisconnectsOf(s) ==
    {k \in 1..Len(replies) : replies[k].origin = "force_dc" /\ replies[k].sess = s}

\* the stream of session s was dropped and its force_dc task is past its send
ForceDcSettled(s) ==
    fdc[s].dropConn # "none" /\ fdc[s].st \in {"awaiting", "done", "ended"}

\* C10 (as stated): a stream dropped while not Disconnected has had exactly
\* one Disconnect submitted, one dropped while Disconnected none.
C10_ExactlyOneDisconnect ==
    \A s \in 1..MaxSessions :
        ForceDcSettled(s) =>
            Cardinality(DisconnectsOf(s)) =
                (IF fdc[s].dropConn = "Disconnected" THEN 0 ELSE 1)

\* C10 (amended): exactly one Disconnect is submitted when the stream was
\* dropped while not Disconnected and the controller task was still running
\* when force_dc sent it; none otherwise.
C10_OneDisconnectIfControllerRuns ==
    \A s \in 1..MaxSessions :
        /\ Cardinality(DisconnectsOf(s)) <= 1
        /\ ForceDcSettled(s) =>
              Cardinality(DisconnectsOf(s)) =
                 (IF fdc[s].dropConn = "Disconnected" \/ ~fdc[s].ctlUp THEN 0 ELSE 1)
        /\ ~ForceDcSettled(s) => DisconnectsOf(s) = {}

\* a stream dropped while Connected whose Disconnect reached the controller
\* and was answered
C10_Witness ==
    \E s \in 1..MaxSessions :
        /\ fdc[s].dropConn = "Connected"
        /\ fdc[s].st = "done"
        /\ fdc[s].ctlUp
        /\ Cardinality(DisconnectsOf(s)) = 1
        /\ Delivered(fdc[s].slot)

\* the answer to the command of slot k is an OK the controller has processed
AckedOk(k) ==
    /\ k <= Len(tncAnswers)
    /\ tncAnswers[k].res = "Ok"
    /\ tncAnswers[k].at <= nProc

\* C11: when a CONNECT was issued from Disconnected and its OK has been
\* processed, and no CONNECTED, DISCONNECTED or CANCELPENDING line has been
\* processed since, the connection observable reads Pending.
C11_PendingAfterConnect ==
    \A k \in 1..Len(replies) :
        ( /\ replies[k].cmd.op = "Connect"
          /\ AckedOk(k)
          /\ \A i \in 1..nProc :
                IsConnectionLine(tncLog[i]) =>
                    IF i < tncAnswers[k].at
                    THEN IsDisconnectedLine(tncLog[i])
                    ELSE tnc_response(tncLog[i]).val.state.state = "Pending" )
        => tx.connection.state = "Pending"

\* C13: a reply slot whose submitter went away still takes the OK/WRONG of
\* its own command, which reaches nobody, and every other slot that got a
\* result got the one the TNC gave to its own command.
C13_CancelKeepsFifoAligned ==
    \A k \in 1..Len(replies) :
        replies[k].rx = "dropped" =>
            /\ (k <= Len(tncAnswers) /\ tncAnswers[k].at <= nProc
                    /\ ctlPc # "ParseError") => Delivered(k)
            /\ Delivered(k) =>
                  /\ k <= Len(tncAnswers)
                  /\ replies[k].sent = tncAnswers[k].res
                  /\ replies[k].val = "none"
            /\ \A j \in 1..Len(replies) :
                  (j # k /\ replies[j].val \in {"Ok", "Wrong"}) =>
                      /\ j <= Len(tncAnswers)
                      /\ replies[j].val = tncAnswers[j].res

\* the first submitter went away, its command was answered WRONG, and the
\* next command got its own OK
C13_Witness ==
    /\ Len(replies) >= 2
    /\ replies[1].rx = "dropped"
    /\ replies[1].sent = "Wrong"
    /\ replies[1].val = "none"
    /\ replies[2].val = "Ok"

\* ------------------------------------------------------------------------
\* The control stream alone: the TNC sends lines, the controller reads them
\* in pieces of any size
\* ------------------------------------------------------------------------
MaxLines == 3       \* lines the TNC sends

StreamLines ==
    { S_OK, S_IAMALIVE,
      S_BUFFER \o <<49, 50>>,
      S_BUSY \o S_ON, S_BUSY \o S_OFF,
      S_PTT \o S_ON,
      S_PENDING,
      S_REGISTERED \o KC1GSL, S_REGISTERED \o KW1U }

InitStream ==
    /\ InitController
    /\ frame = [pc |-> "off"]
    /\ codec = [pc |-> "off"]
    /\ fn = [pc |-> "stream", acks |-> <<>>, split |-> FALSE]

\* the TNC writes one more line to the control socket
TncSends ==
    /\ Len(tncLog) < MaxLines
    /\ \E ln \in StreamLines :
        /\ sockIn' = sockIn \o ln \o <<CR>>
        /\ tncLog' = Append(tncLog, ln)
    /\ UNCHANGED <<ctlPc, response_queue, upd_buffer, tx, chan, inputOpen, replies,
                   sockOut, tncAnswers, nProc, user, fdc, rdc, frame, codec, fn>>

\* select! branch stream.readable() when try_read_buf returns the first
\* `cut` bytes in flight, for every cut; fn.acks collects to_acknowledge and
\* fn.split records that a read ended inside a line
CtlReadSplit ==
    /\ ctlPc = "main"
    /\ sockIn # <<>>
    /\ \E cut \in 1..Len(sockIn) :
        \E r \in {do_a_thing(upd_buffer, SubSeq(sockIn, 1, cut), tx, nProc)} :
        \E d \in {DeliverResults(response_queue, replies, r.acks, "main")} :
           /\ sockIn' = Drop(sockIn, cut)
           /\ tx' = r.tx
           /\ nProc' = r.n
           /\ IF r.err
              THEN /\ ctlPc' = "ParseError"
                   /\ replies' = DropSlots(replies, SeqRange(response_queue) \cup SeqRange(chan))
                   /\ UNCHANGED <<response_queue, upd_buffer, fn>>
              ELSE /\ ctlPc' = "main"
                   /\ upd_buffer' = r.data
                   /\ response_queue' = d.queue
                   /\ replies' = d.replies
                   /\ fn' = [fn EXCEPT !.acks = @ \o r.acks,
                                       !.split = @ \/ r.data # <<>>]
    /\ UNCHANGED <<chan, inputOpen, sockOut, tncLog, tncAnswers, user, fdc, rdc,
                   frame, codec>>

NextStream ==
    \/ TncSends
    \/ CtlReadSplit

SpecStream == InitStream /\ [][NextStream]_vars

\* the update carried by the i-th line the TNC sent
UpdateOf(i) == tnc_response(tncLog[i]).val

\* the lines of one kind among those the controller has processed
Processed(kind) ==
    {i \in 1..nProc : tnc_response(tncLog[i]).ok /\ UpdateOf(i).kind = kind}

LastOf(S) == CHOOSE i \in S : \A j \in S : j <= i

\* C12: each observable holds the value of the most recent processed line of
\* its own kind, or its initial value if there was none (so a line of another
\* kind has not changed it), and the registered set holds every call named by
\* a processed REGISTERED line.
C12_ObservablesFollowLines ==
    /\ tx.busy_state =
          IF Processed("Busy") = {} THEN "NotBusy"
          ELSE UpdateOf(LastOf(Processed("Busy"))).state
    /\ tx.buffer =
          IF Processed("Buffer") = {} THEN 0
          ELSE UpdateOf(LastOf(Processed("Buffer"))).bytes_remaining
    /\ tx.connection =
          IF Processed("Connection") = {} THEN [state |-> "Disconnected"]
          ELSE UpdateOf(LastOf(Processed("Connection"))).state
    /\ tx.transceiver_control =
          IF Processed("TransceiverControl") = {} THEN "Receive"
          ELSE UpdateOf(LastOf(Processed("TransceiverControl"))).control
    /\ tx.registered_calls = {UpdateOf(i).my_call : i \in Processed("Registered")}
    /\ tx.last_heartbeat = Cardinality(Processed("Heartbeat"))

\* BUSY ON, BUFFER 12 and BUSY OFF have been processed in this order
C12_Witness ==
    /\ nProc = 3
    /\ SubSeq(tncLog, 1, 3) = <<S_BUSY \o S_ON, S_BUFFER \o <<49, 50>>, S_BUSY \o S_OFF>>
    /\ tx.busy_state = "NotBusy"
    /\ tx.buffer = 12

\* the bytes of a sequence of lines, each followed by its CR
RECURSIVE Wire(_)
Wire(lines) == IF lines = <<>> THEN <<>> ELSE Head(lines) \o <<CR>> \o Wire(Tail(lines))

\* the bytes the controller has read from the control socket so far
BytesRead == SubSeq(Wire(tncLog), 1, Len(Wire(tncLog)) - Len(sockIn))

\* C14: whatever the cuts between the reads, the lines consumed so far are
\* the complete lines of the bytes read, in order; the buffer holds exactly
\* the bytes of the trailing incomplete line; and the status values and the
\* results to acknowledge are those of one pass over the unsplit bytes.
C14_SplitReadsSameLines ==
    ctlPc = "main" =>
        /\ Wire(SubSeq(tncLog, 1, nProc)) \o upd_buffer = BytesRead
        /\ \A i \in 1..Len(upd_buffer) : upd_buffer[i] # CR
        /\ \E whole \in {ProcessLines(BytesRead, channel, <<>>, 0)} :
              /\ ~whole.err
              /\ whole.n = nProc
              /\ whole.tx = tx
              /\ whole.acks = fn.acks
              /\ whole.data = upd_buffer

\* some read ended inside a line, and all the lines sent have been consumed,
\* an OK among them
C14_Witness ==
    /\ fn.pc = "stream"
    /\ fn.split
    /\ nProc = MaxLines
    /\ sockIn = <<>>
    /\ upd_buffer = <<>>
    /\ fn.acks # <<>>

\* ========================================================================
\* The B2 frame parser (fbb.rs)
\* ========================================================================
\* results of the streaming parsers: Ok, Incomplete(Needed::Size(needed)),
\* Error
POk(rest, val) == [kind |-> "Ok", rest |-> rest, val |-> val]
PIncomplete(n) == [kind |-> "Incomplete", needed |-> n]
PError == [kind |-> "Error"]

\* the sum of bytes[lo..hi], halving the range
RECURSIVE SumRange(_, _, _)
SumRange(bytes, lo, hi) ==
    IF lo > hi THEN 0
    ELSE IF lo = hi THEN bytes[lo]
    ELSE SumRange(bytes, lo, (lo + hi) \div 2) + SumRange(bytes, (lo + hi) \div 2 + 1, hi)
SumBytes(bytes) == CHOOSE r \in {SumRange(b, 1, Len(b)) : b \in {bytes}} : TRUE

RECURSIVE Flatten(_)
Flatten(blocks) == IF blocks = <<>> THEN <<>> ELSE Head(blocks) \o Flatten(Tail(blocks))

RECURSIVE BitXor(_, _, _)
BitXor(a, b, bits) ==
    IF bits = 0 THEN 0
    ELSE (((a % 2) + (b % 2)) % 2) + 2 * BitXor(a \div 2, b \div 2, bits - 1)

\* u32 values are kept as two 16-bit halves
U32(lo, hi) == [lo |-> lo, hi |-> hi]
WrappingAdd32(x, y) ==
    LET l == x.lo + y.lo
    IN U32(l % 65536, (x.hi + y.hi + l \div 65536) % 65536)
Shr32(x, n) ==
    CASE n = 8 -> U32((x.lo \div 256) + (x.hi % 256) * 256, x.hi \div 256)
      [] n = 16 -> U32(x.hi, 0)
      [] n = 24 -> U32(x.hi \div 256, 0)
\* u32::to_le_bytes
ToLeBytes(x) == <<x.lo % 256, x.lo \div 256, x.hi % 256, x.hi \div 256>>

\* crate::crc16::Crc16: seed 0, the CRC-16 of FBB fed one byte at a time
Crc16Poly == 4129
RECURSIVE Crc16Shift(_, _)
Crc16Shift(r, n) ==
    IF n = 0 THEN r
    ELSE Crc16Shift(IF r >= 32768 THEN BitXor((r * 2) % 65536, Crc16Poly, 16)
                    ELSE r * 2, n - 1)
Crc16Update(crc, b) ==
    BitXor(BitXor(Crc16Shift((crc \div 256) * 256, 8), (crc % 256) * 256, 16), b, 16)
\* update with bytes[lo..hi] in order, halving the range
RECURSIVE Crc16Range(_, _, _, _)
Crc16Range(crc, bytes, lo, hi) ==
    IF lo > hi THEN crc
    ELSE IF lo = hi THEN Crc16Update(crc, bytes[lo])
    ELSE CHOOSE r \in {Crc16Range(c, bytes, (lo + hi) \div 2 + 1, hi) :
                          c \in {Crc16Range(crc, bytes, lo, (lo + hi) \div 2)}} : TRUE
Crc16Fold(crc, bytes) ==
    CHOOSE r \in {Crc16Range(c, b, 1, Len(b)) : c \in {crc}, b \in {bytes}} : TRUE
Crc16New == 0

\* nom::bytes::streaming::tag of one byte
StreamingTag(data, b) ==
    IF data = <<>> THEN PIncomplete(1)
    ELSE IF data[1] = b THEN POk(Tail(data), <<b>>)
    ELSE PError

soh(data) == StreamingTag(data, 1)
nul(data) == StreamingTag(data, 0)
stx(data) == StreamingTag(data, 2)
eot(data) == StreamingTag(data, 4)

\* nom::number::streaming::be_u8
be_u8(data) == IF data = <<>> THEN PIncomplete(1) ELSE POk(Tail(data), data[1])

\* nom::bytes::streaming::take
take(count, data) ==
    IF Len(data) < count THEN PIncomplete(count - Len(data))
    ELSE POk(Drop(data, count), SubSeq(data, 1, count))

\* u32::from_str_radix(digits, 10); the value is kept as its decimal digits
\* without leading zeros
U32Max == <<52, 50, 57, 52, 57, 54, 55, 50, 57, 53>>
RECURSIVE LexLeq(_, _)
LexLeq(a, b) ==
    IF a = <<>> THEN TRUE
    ELSE IF Head(a) # Head(b) THEN Head(a) < Head(b)
    ELSE LexLeq(Tail(a), Tail(b))
ParseU32(ds) ==
    LET z == PrefixLen(ds, {48})
        sig == Drop(ds, z)
    IN IF ds = <<>> THEN Fail
       ELSE IF Len(sig) > 10 \/ (Len(sig) = 10 /\ ~LexLeq(sig, U32Max)) THEN Fail
       ELSE [ok |-> TRUE, val |-> IF sig = <<>> THEN <<48>> ELSE sig]

\* is_ascii_graphic() || c == b' '
TitleBytes == 32..126

\* the all_consuming(...) parser header applies to the bytes of the header
header_fields(h) ==
    LET t == PrefixLen(h, TitleBytes)
        n1 == nul(Drop(h, t))
    IN IF n1.kind # "Ok" THEN n1
       ELSE LET d == PrefixLen(n1.rest, Digits)
                off == ParseU32(SubSeq(n1.rest, 1, d))
                n2 == nul(Drop(n1.rest, d))
            IN IF ~off.ok THEN PError
               ELSE IF n2.kind # "Ok" THEN n2
               ELSE IF n2.rest # <<>> THEN PError
               ELSE POk(<<>>, [title |-> SubSeq(h, 1, t), offset |-> off.val])

MaxHeader == 88

header(data) ==
    LET s == soh(data)
    IN IF s.kind # "Ok" THEN s
       ELSE LET n == be_u8(s.rest)
            IN IF n.kind # "Ok" THEN n
               ELSE IF n.val > MaxHeader THEN PError
               ELSE LET h == take(n.val, n.rest)
                    IN IF h.kind # "Ok" THEN h
                       ELSE LET f == header_fields(h.val)
                            IN IF f.kind # "Ok" THEN f ELSE POk(h.rest, f.val)

checksum(data) ==
    LET e == eot(data)
    IN IF e.kind # "Ok" THEN e ELSE be_u8(e.rest)

\* mutant of data_block: a length byte of 0 is not read as 256
data_block_len_zero(data) ==
    LET s == stx(data)
    IN IF s.kind # "Ok" THEN s
       ELSE LET n == be_u8(s.rest)
            IN IF n.kind # "Ok" THEN n ELSE take(n.val, n.rest)

data_block(data) ==
    LET s == stx(data)
    IN IF s.kind # "Ok" THEN s
       ELSE LET n == be_u8(s.rest)
            IN IF n.kind # "Ok" THEN n
               ELSE take(IF n.val = 0 THEN 256 ELSE n.val, n.rest)

\* nom::multi::many_till(data_block, checksum): c and b are the results of
\* checksum and data_block on the input i
RECURSIVE many_till(_, _)
many_till_step(i, blocks, c, b) ==
    IF c.kind = "Ok" THEN POk(c.rest, [blocks |-> blocks, checksum |-> c.val])
    ELSE IF c.kind = "Incomplete" THEN c
    ELSE IF b.kind # "Ok" THEN b
    ELSE many_till(b.rest, Append(blocks, b.val))

many_till(i, blocks) ==
    CHOOSE r \in {many_till_step(i, blocks, c, b) :
                     c \in {checksum(i)}, b \in {data_block(i)}} : TRUE

\* nom::number::complete::le_u16 then le_u32
first_data_block(data) ==
    IF Len(data) < 6 THEN PError
    ELSE POk(Drop(data, 6),
             [crc16 |-> data[1] + 256 * data[2],
              uncompressed_size |-> U32(data[3] + 256 * data[4], data[5] + 256 * data[6])])

data_blocks(data) ==
    LET m == many_till(data, <<>>)
    IN IF m.kind # "Ok" THEN m
       ELSE IF m.val.blocks = <<>>
       THEN POk(m.rest, [crc16 |-> 0, uncompressed_size |-> U32(0, 0),
                         blocks |-> <<>>, checksum |-> m.val.checksum])
       ELSE LET f == first_data_block(m.val.blocks[1])
            IN IF f.kind # "Ok" THEN f
               ELSE POk(m.rest, [crc16 |-> f.val.crc16,
                                 uncompressed_size |-> f.val.uncompressed_size,
                                 blocks |-> <<f.rest>> \o Tail(m.val.blocks),
                                 checksum |-> m.val.checksum])

\* mutant of checksum_ok: the 8-bit sum leaves out the bytes of the size
checksum_ok_without_size(d) ==
    LET c16 == (d.crc16 + d.crc16 \div 256) % 65536
        sum == ((c16 % 256) + SumBytes(Flatten(d.blocks))) % 256
    IN (d.checksum + sum) % 256 = 0

\* the closure b2_message_block hands to verify
checksum_ok(d) ==
    LET c16 == (d.crc16 + d.crc16 \div 256) % 65536
        u == d.uncompressed_size
        check == WrappingAdd32(U32(c16, 0),
                     WrappingAdd32(WrappingAdd32(WrappingAdd32(u, Shr32(u, 8)),
                                                 Shr32(u, 16)), Shr32(u, 24)))
        sum == ((check.lo % 256) + SumBytes(Flatten(d.blocks))) % 256
    IN (d.checksum + sum) % 256 = 0

crc16_ok(d) ==
    d.crc16 = Crc16Fold(Crc16Fold(Crc16New, ToLeBytes(d.uncompressed_size)),
                        Flatten(d.blocks))

b2_message_block(data) ==
    LET h == header(data)
    IN IF h.kind # "Ok" THEN h
       ELSE LET d == data_blocks(h.rest)
            IN IF d.kind # "Ok" THEN d
               ELSE IF ~(checksum_ok(d.val) /\ crc16_ok(d.val)) THEN PError
               ELSE POk(d.rest, [title |-> h.val.title, offset |-> h.val.offset,
                                 crc16 |-> d.val.crc16,
                                 uncompressed_size |-> d.val.uncompressed_size,
                                 blocks |-> d.val.blocks])

\* ------------------------------------------------------------------------
\* Frames offered to the parser
\* ------------------------------------------------------------------------
MaxPayload == 3        \* compressed bytes of the short frames: 0..MaxPayload
LongPayload == 250     \* compressed bytes of the frame whose block holds 256
ShortBlock == 1        \* compressed bytes per block of the frames cut into blocks

\* compressed bytes that look like STX, EOT, SOH and NUL
PayloadByte(i) == <<2, 4, 236, 1, 0>>[(i % 5) + 1]
Payload(n) == [i \in 1..n |-> PayloadByte(i)]

RECURSIVE Chunks(_, _)
Chunks(body, size) ==
    IF body = <<>> THEN <<>>
    ELSE IF Len(body) <= size THEN <<body>>
    ELSE <<SubSeq(body, 1, size)>> \o Chunks(Drop(body, size), size)

RECURSIVE EmitBlocks(_)
EmitBlocks(blocks) ==
    IF blocks = <<>> THEN <<>>
    ELSE <<2, Len(Head(blocks)) % 256>> \o Head(blocks) \o EmitBlocks(Tail(blocks))

\* the fields a frame is written from: crcDelta and sumDelta are added to the
\* right CRC and to the right checksum byte, blockLen = 0 writes no block
FrameSources ==
    { [title |-> t, offset |-> <<48>>, size |-> U32(n, 0), payload |-> Payload(n),
       blockLen |-> b, crcDelta |-> d[1], sumDelta |-> d[2]] :
         t \in {<<>>, <<72, 105>>},
         n \in 0..MaxPayload,
         b \in {ShortBlock, 256},
         d \in {<<0, 0>>, <<1, 0>>, <<0, 1>>} }
    \cup
    { [title |-> <<72, 105>>, offset |-> <<48>>, size |-> U32(LongPayload, 0),
       payload |-> Payload(LongPayload), blockLen |-> 256,
       crcDelta |-> d[1], sumDelta |-> d[2]] : d \in {<<0, 0>>, <<1, 0>>, <<0, 1>>} }
    \cup
    { [title |-> <<66, 50>>, offset |-> <<48, 49, 50>>, size |-> U32(0, 0),
       payload |-> <<>>, blockLen |-> 0, crcDelta |-> 0, sumDelta |-> d] : d \in {0, 1} }

SrcCrc(src) ==
    IF src.blockLen = 0 THEN 0
    ELSE (Crc16Fold(Crc16Fold(Crc16New, ToLeBytes(src.size)), src.payload)
          + src.crcDelta) % 65536

\* the 8-bit sum of the frame as the format defines it
SrcSum(src) ==
    ((SrcCrc(src) % 256) + (SrcCrc(src) \div 256) + SumBytes(ToLeBytes(src.size))
     + SumBytes(src.payload)) % 256

SrcChecksum(src) == (256 - SrcSum(src) + src.sumDelta) % 256

\* the first block starts with crc16 and uncompressed_size; blockLen = 256
\* fills every block, a smaller blockLen cuts the compressed bytes
SrcBlocks(src) ==
    LET lead == <<SrcCrc(src) % 256, SrcCrc(src) \div 256>> \o ToLeBytes(src.size)
        cut == Chunks(src.payload, src.blockLen)
    IN IF src.blockLen = 0 THEN <<>>
       ELSE IF src.blockLen = 256 THEN Chunks(lead \o src.payload, 256)
       ELSE IF cut = <<>> THEN <<lead>>
       ELSE <<lead \o Head(cut)>> \o Tail(cut)

FrameBytes(src) ==
    LET h == src.title \o <<0>> \o src.offset \o <<0>>
    IN <<1, Len(h)>> \o h \o EmitBlocks(SrcBlocks(src)) \o <<4, SrcChecksum(src)>>

SrcValid(src) == src.crcDelta = 0 /\ src.sumDelta = 0

\* the CompressedMessage a valid frame carries
SrcMessage(src) ==
    [title |-> src.title,
     offset |-> Drop(src.offset, PrefixLen(SubSeq(src.offset, 1, Len(src.offset) - 1), {48})),
     crc16 |-> SrcCrc(src),
     uncompressed_size |-> src.size,
     blocks |-> IF src.blockLen = 0 THEN <<>>
                ELSE <<Drop(SrcBlocks(src)[1], 6)>> \o Tail(SrcBlocks(src))]

\* ------------------------------------------------------------------------
\* Specification of the frame parser: a frame arrives in pieces and
\* b2_message_block is called on what has arrived
\* ------------------------------------------------------------------------
FrameBuf == SubSeq(frame.full, 1, frame.n)

FrameState(src, full, n) ==
    [pc |-> "parse", src |-> src, full |-> full, n |-> n,
     res |-> b2_message_block(SubSeq(full, 1, n))]

InitFrame ==
    /\ InitController
    /\ codec = [pc |-> "off"]
    /\ fn = [pc |-> "off"]
    /\ \E src \in FrameSources :
          \E full \in {FrameBytes(src)} : frame = FrameState(src, full, 0)

\* one more byte arrives
FrameFeedOne ==
    /\ frame.pc = "parse"
    /\ frame.n < Len(frame.full)
    /\ frame' = FrameState(frame.src, frame.full, frame.n + 1)
    /\ UNCHANGED <<ctlVars, codec, fn>>

\* the bytes the parser asked for arrive
FrameFeedNeeded ==
    /\ frame.pc = "parse"
    /\ frame.res.kind = "Incomplete"
    /\ frame.res.needed >= 1
    /\ frame.n + frame.res.needed <= Len(frame.full)
    /\ frame' = FrameState(frame.src, frame.full, frame.n + frame.res.needed)
    /\ UNCHANGED <<ctlVars, codec, fn>>

\* all the rest of the frame arrives
FrameFeedRest ==
    /\ frame.pc = "parse"
    /\ frame.n < Len(frame.full)
    /\ frame' = FrameState(frame.src, frame.full, Len(frame.full))
    /\ UNCHANGED <<ctlVars, codec, fn>>

NextFrame ==
    \/ FrameFeedOne
    \/ FrameFeedNeeded
    \/ FrameFeedRest

SpecFrame == InitFrame /\ [][NextFrame]_vars

\* C5: a message is returned only for a frame whose bytes satisfy the 8-bit
\* sum (low and high byte of crc16, the four little-endian bytes of
\* uncompressed_size, the compressed bytes and the trailing checksum byte
\* add up to 0 mod 256) and whose crc16 field is the CRC16 of the size bytes
\* followed by the compressed bytes; a complete frame that fails one of the
\* two is answered with an error.
C5_FrameIntegrity ==
    frame.pc = "parse" =>
       /\ frame.res.kind = "Ok" =>
             LET m == frame.res.val
                 cs == frame.full[frame.n - Len(frame.res.rest)]
             IN /\ ((m.crc16 % 256) + (m.crc16 \div 256)
                     + SumBytes(ToLeBytes(m.uncompressed_size))
                     + SumBytes(Flatten(m.blocks)) + cs) % 256 = 0
                /\ Crc16Fold(Crc16Fold(Crc16New, ToLeBytes(m.uncompressed_size)),
                             Flatten(m.blocks)) = m.crc16
                /\ SrcValid(frame.src)
       /\ (frame.n = Len(frame.full) /\ ~SrcValid(frame.src)) =>
             frame.res.kind = "Error"

\* a complete frame with a wrong CRC only has been rejected
C5_Witness ==
    /\ frame.pc = "parse"
    /\ frame.n = Len(frame.full)
    /\ frame.src.crcDelta = 1 /\ frame.src.sumDelta = 0
    /\ frame.src.payload # <<>>
    /\ frame.res.kind = "Error"

\* C6: on a proper prefix of a valid frame the parser answers Incomplete
\* with a need of at least one byte that the frame still holds; on the whole
\* frame, however it arrived, it returns the frame's message.
C6_IncrementalParsing ==
    (frame.pc = "parse" /\ SrcValid(frame.src)) =>
       IF frame.n < Len(frame.full)
       THEN /\ frame.res.kind = "Incomplete"
            /\ frame.res.needed >= 1
            /\ frame.res.needed <= Len(frame.full) - frame.n
       ELSE frame.res = POk(<<>>, SrcMessage(frame.src))

\* a valid frame of three blocks has arrived whole and was parsed
C6_Witness ==
    /\ frame.pc = "parse"
    /\ SrcValid(frame.src)
    /\ frame.n = Len(frame.full)
    /\ frame.res.kind = "Ok"
    /\ Len(frame.res.val.blocks) = 3


(***************************************************************************)
(* LZHUF codec (src/src/lzhuf.rs): adaptive Huffman model, LZSS match      *)
(* tree, bit writer and bit reader.  Arrays are functions on 0..len-1.     *)
(***************************************************************************)
N == 2048
F == 60
THRESHOLD == 2
NIL == N
N_CHAR == 256 - THRESHOLD + F
T == N_CHAR * 2 - 1
R == T - 1
MAX_FREQ == 32768

\* the tables are indexed from 0 in the source: entry i is table[i + 1]
p_len ==
    <<3, 4, 4, 4, 5, 5, 5, 5, 5, 5, 5, 5, 6, 6, 6, 6,
      6, 6, 6, 6, 6, 6, 6, 6, 7, 7, 7, 7, 7, 7, 7, 7,
      7, 7, 7, 7, 7, 7, 7, 7, 7, 7, 7, 7, 7, 7, 7, 7,
      8, 8, 8, 8, 8, 8, 8, 8, 8, 8, 8, 8, 8, 8, 8, 8>>
p_code ==
    <<0, 32, 48, 64, 80, 88, 96, 104, 112, 120, 128, 136, 144, 148, 152, 156,
      160, 164, 168, 172, 176, 180, 184, 188, 192, 194, 196, 198, 200, 202, 204, 206,
      208, 210, 212, 214, 216, 218, 220, 222, 224, 226, 228, 230, 232, 234, 236, 238,
      240, 241, 242, 243, 244, 245, 246, 247, 248, 249, 250, 251, 252, 253, 254, 255>>
DECODE_CODE ==
    <<0, 0, 0, 0, 0, 0, 0, 0, 0, 0, 0, 0, 0, 0, 0, 0,
      0, 0, 0, 0, 0, 0, 0, 0, 0, 0, 0, 0, 0, 0, 0, 0,
      1, 1, 1, 1, 1, 1, 1, 1, 1, 1, 1, 1, 1, 1, 1, 1,
      2, 2, 2, 2, 2, 2, 2, 2, 2, 2, 2, 2, 2, 2, 2, 2,
      3, 3, 3, 3, 3, 3, 3, 3, 3, 3, 3, 3, 3, 3, 3, 3,
      4, 4, 4, 4, 4, 4, 4, 4, 5, 5, 5, 5, 5, 5, 5, 5,
      6, 6, 6, 6, 6, 6, 6, 6, 7, 7, 7, 7, 7, 7, 7, 7,
      8, 8, 8, 8, 8, 8, 8, 8, 9, 9, 9, 9, 9, 9, 9, 9,
      10, 10, 10, 10, 10, 10, 10, 10, 11, 11, 11, 11, 11, 11, 11, 11,
      12, 12, 12, 12, 13, 13, 13, 13, 14, 14, 14, 14, 15, 15, 15, 15,
      16, 16, 16, 16, 17, 17, 17, 17, 18, 18, 18, 18, 19, 19, 19, 19,
      20, 20, 20, 20, 21, 21, 21, 21, 22, 22, 22, 22, 23, 23, 23, 23,
      24, 24, 25, 25, 26, 26, 27, 27, 28, 28, 29, 29, 30, 30, 31, 31,
      32, 32, 33, 33, 34, 34, 35, 35, 36, 36, 37, 37, 38, 38, 39, 39,
      40, 40, 41, 41, 42, 42, 43, 43, 44, 44, 45, 45, 46, 46, 47, 47,
      48, 49, 50, 51, 52, 53, 54, 55, 56, 57, 58, 59, 60, 61, 62, 63>>
DECODE_LEN ==
    <<3, 3, 3, 3, 3, 3, 3, 3, 3, 3, 3, 3, 3, 3, 3, 3,
      3, 3, 3, 3, 3, 3, 3, 3, 3, 3, 3, 3, 3, 3, 3, 3,
      4, 4, 4, 4, 4, 4, 4, 4, 4, 4, 4, 4, 4, 4, 4, 4,
      4, 4, 4, 4, 4, 4, 4, 4, 4, 4, 4, 4, 4, 4, 4, 4,
      4, 4, 4, 4, 4, 4, 4, 4, 4, 4, 4, 4, 4, 4, 4, 4,
      5, 5, 5, 5, 5, 5, 5, 5, 5, 5, 5, 5, 5, 5, 5, 5,
      5, 5, 5, 5, 5, 5, 5, 5, 5, 5, 5, 5, 5, 5, 5, 5,
      5, 5, 5, 5, 5, 5, 5, 5, 5, 5, 5, 5, 5, 5, 5, 5,
      5, 5, 5, 5, 5, 5, 5, 5, 5, 5, 5, 5, 5, 5, 5, 5,
      6, 6, 6, 6, 6, 6, 6, 6, 6, 6, 6, 6, 6, 6, 6, 6,
      6, 6, 6, 6, 6, 6, 6, 6, 6, 6, 6, 6, 6, 6, 6, 6,
      6, 6, 6, 6, 6, 6, 6, 6, 6, 6, 6, 6, 6, 6, 6, 6,
      7, 7, 7, 7, 7, 7, 7, 7, 7, 7, 7, 7, 7, 7, 7, 7,
      7, 7, 7, 7, 7, 7, 7, 7, 7, 7, 7, 7, 7, 7, 7, 7,
      7, 7, 7, 7, 7, 7, 7, 7, 7, 7, 7, 7, 7, 7, 7, 7,
      8, 8, 8, 8, 8, 8, 8, 8, 8, 8, 8, 8, 8, 8, 8, 8>>

\* v is evaluated once and handed to K
Then(v, K(_)) == CHOOSE x \in {K(a) : a \in {v}} : TRUE
RECURSIVE BitOr(_, _)
BitOr(a, b) ==
    IF a = 0 THEN b
    ELSE IF b = 0 THEN a
    ELSE (IF a % 2 = 1 \/ b % 2 = 1 THEN 1 ELSE 0) + 2 * BitOr(a \div 2, b \div 2)

\* LzHufState::new.  The two while loops step i = 0, 2, .. together with
\* j = N_CHAR, N_CHAR + 1, ..: one pass of new_loop is one pass of each.
RECURSIVE new_loop(_, _)
new_loop(w, n) ==
    IF w.done \/ n = 0 THEN w
    ELSE IF n > 1
    THEN Then(new_loop(w, n \div 2), LAMBDA h : new_loop(h, n - n \div 2))
    ELSE [frequency_table |->
              [w.frequency_table EXCEPT ![w.j] =
                   w.frequency_table[w.i] + w.frequency_table[w.i + 1]],
          children |-> [w.children EXCEPT ![w.j] = w.i],
          parents |-> [w.parents EXCEPT ![w.i] = w.j, ![w.i + 1] = w.j],
          i |-> w.i + 2, j |-> w.j + 1,
          done |-> ~(w.i + 2 < T - 1)]

LzHufState_new ==
    LET w == new_loop(
            [frequency_table |-> [i \in 0..T |-> IF i < N_CHAR THEN 1 ELSE 0],
             children |-> [i \in 0..(T - 1) |-> IF i < N_CHAR THEN i + T ELSE 0],
             parents |-> [i \in 0..(T + N_CHAR - 1) |-> IF i >= T THEN i - T ELSE 0],
             i |-> 0, j |-> N_CHAR, done |-> FALSE], T)
    IN [frequency_table |-> [w.frequency_table EXCEPT ![T] = 65535],
        parents |-> [w.parents EXCEPT ![R] = 0],
        children |-> w.children,
        text_buffer |-> [i \in 0..(N + F - 2) |-> 32],
        r |-> N - F,
        panic |-> FALSE]

\* reconstruct, first loop: the leaves are moved to the front with halved counts
RECURSIVE reconstruct_leaves(_, _)
reconstruct_leaves(w, n) ==
    IF w.done \/ n = 0 THEN w
    ELSE IF n > 1
    THEN Then(reconstruct_leaves(w, n \div 2),
              LAMBDA h : reconstruct_leaves(h, n - n \div 2))
    ELSE LET leaf == w.children[w.i] >= T
         IN [frequency_table |->
                 IF leaf THEN [w.frequency_table EXCEPT ![w.j] =
                                   (w.frequency_table[w.i] + 1) \div 2]
                 ELSE w.frequency_table,
             children |-> IF leaf THEN [w.children EXCEPT ![w.j] = w.children[w.i]]
                          ELSE w.children,
             i |-> w.i + 1,
             j |-> IF leaf THEN w.j + 1 ELSE w.j,
             done |-> w.i + 1 = T]

\* mutant of CopyWithin: one element more is moved
CopyWithin_one_more(a, k, l) ==
    [x \in DOMAIN a |-> IF k + 1 <= x /\ x <= k + l + 1 THEN a[x - 1] ELSE a[x]]

\* mutant of CopyWithin: nothing is moved
CopyWithin_none(a, k, l) == a

\* slice.copy_within(k..k+l, k+1) on an array a
CopyWithin(a, k, l) ==
    [x \in DOMAIN a |-> IF k + 1 <= x /\ x <= k + l THEN a[x - 1] ELSE a[x]]

\* reconstruct, second loop: internal node j is built from the pair i, i + 1
\* and inserted in count order.  copy_within panics when its range leaves
\* the array, and so does the scan when it runs below index 0.
RECURSIVE reconstruct_nodes(_, _)
reconstruct_nodes(w, n) ==
    IF w.done \/ n = 0 THEN w
    ELSE IF n > 1
    THEN Then(reconstruct_nodes(w, n \div 2),
              LAMBDA h : reconstruct_nodes(h, n - n \div 2))
    ELSE LET f == w.frequency_table[w.i] + w.frequency_table[w.i + 1]
             above == {m \in 0..w.j : \A x \in m..(w.j - 1) : f < w.frequency_table[x]}
             k == MinOf(above)
             l == (w.j - k) * 2
             panic == k = 0 \/ k + 1 + l > T
         IN IF panic THEN [w EXCEPT !.panic = TRUE, !.done = TRUE]
            ELSE Then([w.frequency_table EXCEPT ![w.j] = f], LAMBDA f1 :
                 [frequency_table |-> [CopyWithin(f1, k, l) EXCEPT ![k] = f],
                  children |-> [CopyWithin(w.children, k, l) EXCEPT ![k] = w.i],
                  i |-> w.i + 2, j |-> w.j + 1,
                  panic |-> FALSE,
                  done |-> w.j + 1 = T])

\* mutant of reconstruct_parents: an internal pair gets its parent in the
\* second slot only
RECURSIVE reconstruct_parents_one_slot(_, _)
reconstruct_parents_one_slot(w, n) ==
    IF w.done \/ n = 0 THEN w
    ELSE IF n > 1
    THEN Then(reconstruct_parents_one_slot(w, n \div 2),
              LAMBDA h : reconstruct_parents_one_slot(h, n - n \div 2))
    ELSE LET k == w.children[w.i]
         IN [parents |-> IF k >= T THEN [w.parents EXCEPT ![k] = w.i]
                         ELSE [w.parents EXCEPT ![k + 1] = w.i],
             children |-> w.children,
             i |-> w.i + 1,
             done |-> w.i + 1 = T]

\* reconstruct, third loop: the parents are rebuilt from the children
RECURSIVE reconstruct_parents(_, _)
reconstruct_parents(w, n) ==
    IF w.done \/ n = 0 THEN w
    ELSE IF n > 1
    THEN Then(reconstruct_parents(w, n \div 2),
              LAMBDA h : reconstruct_parents(h, n - n \div 2))
    ELSE LET k == w.children[w.i]
         IN [parents |-> IF k >= T THEN [w.parents EXCEPT ![k] = w.i]
                         ELSE [w.parents EXCEPT ![k + 1] = w.i, ![k] = w.i],
             children |-> w.children,
             i |-> w.i + 1,
             done |-> w.i + 1 = T]

\* mutant of reconstruct: the counts are left as they are
reconstruct_skipped(st) == st

reconstruct(st) ==
    Then(reconstruct_leaves([frequency_table |-> st.frequency_table,
                             children |-> st.children,
                             i |-> 0, j |-> 0, done |-> FALSE], T),
         LAMBDA a :
    Then(reconstruct_nodes([frequency_table |-> a.frequency_table,
                            children |-> a.children,
                            i |-> 0, j |-> N_CHAR, panic |-> FALSE,
                            done |-> FALSE], T),
         LAMBDA b :
    IF b.panic THEN [st EXCEPT !.panic = TRUE]
    ELSE Then(reconstruct_parents([parents |-> st.parents, children |-> b.children,
                                   i |-> 0, done |-> FALSE], T),
              LAMBDA c :
              [st EXCEPT !.frequency_table = b.frequency_table,
                         !.children = b.children,
                         !.parents = c.parents])))

\* update, one pass of the loop: the count of node c goes up by one, the node
\* is exchanged with the last node of the same old count, and c moves up
RECURSIVE update_loop(_, _)
update_loop(w, n) ==
    IF w.done \/ n = 0 THEN w
    ELSE IF n > 1
    THEN Then(update_loop(w, n \div 2), LAMBDA h : update_loop(h, n - n \div 2))
    ELSE Then([w.st.frequency_table EXCEPT ![w.c] = @ + 1], LAMBDA f1 :
         LET k == f1[w.c]
         IN IF k > f1[w.c + 1]
            THEN LET l == MinOf({m \in (w.c + 2)..T : ~(k > f1[m])}) - 1
                     i == w.st.children[w.c]
                     j == w.st.children[l]
                     p1 == [w.st.parents EXCEPT ![i] = l]
                     p2 == IF i < T THEN [p1 EXCEPT ![i + 1] = l] ELSE p1
                     p3 == [p2 EXCEPT ![j] = w.c]
                 IN Then(IF j < T THEN [p3 EXCEPT ![j + 1] = w.c] ELSE p3,
                         LAMBDA p4 :
                    [st |-> [w.st EXCEPT
                               !.frequency_table = [f1 EXCEPT ![w.c] = f1[l], ![l] = k],
                               !.parents = p4,
                               !.children = [w.st.children EXCEPT ![l] = i, ![w.c] = j]],
                     c |-> p4[l],
                     done |-> p4[l] = 0])
            ELSE [st |-> [w.st EXCEPT !.frequency_table = f1],
                  c |-> w.st.parents[w.c],
                  done |-> w.st.parents[w.c] = 0])

LzHufState_update(st, c) ==
    Then(IF st.frequency_table[R] = MAX_FREQ THEN reconstruct(st) ELSE st,
         LAMBDA s1 :
         IF s1.panic THEN s1
         ELSE update_loop([st |-> s1, c |-> s1.parents[c + T], done |-> FALSE], T).st)

update_text_buffer(st, c) ==
    [st EXCEPT !.text_buffer[st.r] = c, !.r = (st.r + 1) % N]

\* Bitbuffer: bit_buffer is a u16, output the Vec the bytes are pushed to.
\* shl_overflow records a shift by 16 or more, which panics in a debug build
\* and shifts by the amount mod 16 in a release build.
put_code(o, l, c) ==
    LET buf == BitOr(o.bit_buffer, c \div 2^o.bit_pos)
        pos == o.bit_pos + l
    IN IF pos >= 8
       THEN IF pos - 8 >= 8
            THEN [bit_buffer |-> (c * 2^((l - (pos - 16)) % 16)) % 2^16,
                  bit_pos |-> pos - 16,
                  output |-> o.output \o <<buf \div 256, buf % 256>>,
                  shl_overflow |-> o.shl_overflow \/ l - (pos - 16) >= 16]
            ELSE [bit_buffer |-> (buf * 256) % 2^16,
                  bit_pos |-> pos - 8,
                  output |-> Append(o.output, buf \div 256),
                  shl_overflow |-> o.shl_overflow]
       ELSE [o EXCEPT !.bit_buffer = buf, !.bit_pos = pos]

\* Drop for Bitbuffer: the bytes the Vec holds once the encoder is gone
Bitbuffer_drop(o) ==
    IF o.bit_pos > 0 THEN Append(o.output, o.bit_buffer \div 256) ELSE o.output

\* Biterator: bit_buffer is a u32, input the bytes not yet taken
Shl32(x, n) ==
    U32((x.lo * 2^n) % 2^16, (x.hi * 2^n + (x.lo * 2^n) \div 2^16) % 2^16)

RECURSIVE fill_buffer(_)
fill_buffer(b) ==
    IF b.bit_pos <= 8 /\ b.input # <<>>
    THEN fill_buffer(
           [bit_buffer |-> U32(BitOr(b.bit_buffer.lo, Head(b.input) * 2^(8 - b.bit_pos)),
                               b.bit_buffer.hi),
            bit_pos |-> b.bit_pos + 8,
            input |-> Tail(b.input)])
    ELSE b

\* Option values: [some |-> FALSE] is None
None == [some |-> FALSE]
Some(v) == [some |-> TRUE, val |-> v]

get_bit_no_shift(b) ==
    LET f == fill_buffer(b)
    IN IF f.bit_pos = 0 THEN [stream |-> f, ret |-> None]
       ELSE [stream |-> [f EXCEPT !.bit_pos = f.bit_pos - 1],
             ret |-> Some((f.bit_buffer.lo \div 2^15) % 2)]

\* get_bit and get_byte give the reader after the call and the value returned
get_bit(b) ==
    LET f == fill_buffer(b)
    IN IF f.bit_pos = 0 THEN [stream |-> f, ret |-> None]
       ELSE [stream |-> [f EXCEPT !.bit_buffer = Shl32(f.bit_buffer, 1),
                                  !.bit_pos = f.bit_pos - 1],
             ret |-> Some((f.bit_buffer.lo \div 2^15) % 2)]

get_byte(b) ==
    LET f == fill_buffer(b)
    IN IF f.bit_pos < 8 THEN [stream |-> f, ret |-> None]
       ELSE [stream |-> [f EXCEPT !.bit_buffer = Shl32(f.bit_buffer, 8),
                                  !.bit_pos = f.bit_pos - 8],
             ret |-> Some((f.bit_buffer.lo \div 2^8) % 2^8)]

\* Encoder: the model, the best match of the last insert_node, the bit
\* writer and the match tree (roots N + 1 + byte, NIL for no node)
Encoder_new ==
    [state |-> LzHufState_new,
     match_length |-> 0,
     match_position |-> 0,
     output |-> [bit_buffer |-> 0, bit_pos |-> 0, output |-> <<>>,
                 shl_overflow |-> FALSE],
     lson |-> [i \in 0..N |-> 0],
     rson |-> [i \in 0..(N + 256) |-> IF i > N THEN NIL ELSE 0],
     dad |-> [i \in 0..N |-> IF i = N THEN 0 ELSE NIL]]

\* mutant of insert_loop: a node of the same length never replaces the
\* position found first
RECURSIVE insert_loop_keeps_first(_, _)
insert_loop_keeps_first(w, n) ==
    IF w.done \/ n = 0 THEN w
    ELSE IF n > 1
    THEN Then(insert_loop_keeps_first(w, n \div 2), LAMBDA h : insert_loop_keeps_first(h, n - n \div 2))
    ELSE LET e == w.e
             son == IF w.cmp >= 0 THEN e.rson[w.p] ELSE e.lson[w.p]
         IN IF son = NIL
            THEN [w EXCEPT !.e = IF w.cmp >= 0
                                 THEN [e EXCEPT !.rson[w.p] = w.r, !.dad[w.r] = w.p]
                                 ELSE [e EXCEPT !.lson[w.p] = w.r, !.dad[w.r] = w.p],
                           !.exit = "return", !.done = TRUE]
            ELSE LET tb == e.state.text_buffer
                     diff == {i \in 1..(F - 1) : tb[w.r + i] # tb[son + i]}
                     i == IF diff = {} THEN F ELSE MinOf(diff)
                     c == ((w.r - son) % N) - 1
                     longer == i > THRESHOLD /\ i > e.match_length
                     stop == longer /\ i >= F
                     len == IF longer THEN i ELSE e.match_length
                     pos == IF longer THEN c ELSE e.match_position
                 IN [e |-> [e EXCEPT !.match_length = len,
                                     !.match_position = pos],
                     r |-> w.r,
                     p |-> son,
                     cmp |-> IF diff = {} THEN 0 ELSE (tb[w.r + i] - tb[son + i]) % 256,
                     exit |-> IF stop THEN "break" ELSE "none",
                     done |-> stop]

\* insert_node, one pass of the loop.  cmp is a u8, as in the source, so the
\* test cmp >= 0 holds for each of its values.
RECURSIVE insert_loop(_, _)
insert_loop(w, n) ==
    IF w.done \/ n = 0 THEN w
    ELSE IF n > 1
    THEN Then(insert_loop(w, n \div 2), LAMBDA h : insert_loop(h, n - n \div 2))
    ELSE LET e == w.e
             son == IF w.cmp >= 0 THEN e.rson[w.p] ELSE e.lson[w.p]
         IN IF son = NIL
            THEN [w EXCEPT !.e = IF w.cmp >= 0
                                 THEN [e EXCEPT !.rson[w.p] = w.r, !.dad[w.r] = w.p]
                                 ELSE [e EXCEPT !.lson[w.p] = w.r, !.dad[w.r] = w.p],
                           !.exit = "return", !.done = TRUE]
            ELSE LET tb == e.state.text_buffer
                     diff == {i \in 1..(F - 1) : tb[w.r + i] # tb[son + i]}
                     i == IF diff = {} THEN F ELSE MinOf(diff)
                     c == ((w.r - son) % N) - 1
                     longer == i > THRESHOLD /\ i > e.match_length
                     stop == longer /\ i >= F
                     len == IF longer THEN i ELSE e.match_length
                     pos == IF longer THEN c ELSE e.match_position
                 IN [e |-> [e EXCEPT !.match_length = len,
                                     !.match_position =
                                         IF ~stop /\ i > THRESHOLD /\ i = len /\ c < pos
                                         THEN c ELSE pos],
                     r |-> w.r,
                     p |-> son,
                     cmp |-> IF diff = {} THEN 0 ELSE (tb[w.r + i] - tb[son + i]) % 256,
                     exit |-> IF stop THEN "break" ELSE "none",
                     done |-> stop]

insert_node(enc, r) ==
    Then(insert_loop([e |-> [enc EXCEPT !.lson[r] = NIL, !.rson[r] = NIL,
                                        !.match_length = 0],
                      r |-> r, p |-> N + 1 + enc.state.text_buffer[r], cmp |-> 1,
                      exit |-> "none", done |-> FALSE], N + 1),
         LAMBDA w :
         IF w.exit # "break" THEN w.e
         ELSE \* the node p holds the same F bytes: r takes its place
              LET e == w.e
                  p == w.p
                  dad1 == [e.dad EXCEPT ![r] = e.dad[p]]
                  lson1 == [e.lson EXCEPT ![r] = e.lson[p]]
                  rson1 == [e.rson EXCEPT ![r] = e.rson[p]]
                  dad2 == [dad1 EXCEPT ![lson1[p]] = r]
                  dad3 == [dad2 EXCEPT ![rson1[p]] = r]
                  right == rson1[dad3[p]] = p
              IN [e EXCEPT !.dad = [dad3 EXCEPT ![p] = NIL],
                           !.lson = IF right THEN lson1 ELSE [lson1 EXCEPT ![dad3[p]] = r],
                           !.rson = IF right THEN [rson1 EXCEPT ![dad3[p]] = r] ELSE rson1])

\* delete_node, the descent to the rightmost node under lson[p]
RECURSIVE delete_loop(_, _)
delete_loop(w, n) ==
    IF w.done \/ n = 0 THEN w
    ELSE IF n > 1
    THEN Then(delete_loop(w, n \div 2), LAMBDA h : delete_loop(h, n - n \div 2))
    ELSE [rson |-> w.rson, q |-> w.rson[w.q], done |-> w.rson[w.rson[w.q]] = NIL]

\* the node q that takes the place of p, and the arrays after it was unhooked
delete_replacement(e, p) ==
    IF e.rson[p] = NIL THEN [q |-> e.lson[p], lson |-> e.lson, rson |-> e.rson, dad |-> e.dad]
    ELSE IF e.lson[p] = NIL
    THEN [q |-> e.rson[p], lson |-> e.lson, rson |-> e.rson, dad |-> e.dad]
    ELSE LET q0 == e.lson[p]
             deep == e.rson[q0] # NIL
             q == IF deep
                  THEN delete_loop([rson |-> e.rson, q |-> q0, done |-> FALSE], N + 1).q
                  ELSE q0
             rson1 == IF deep THEN [e.rson EXCEPT ![e.dad[q]] = e.lson[q]] ELSE e.rson
             dad1 == IF deep THEN [e.dad EXCEPT ![e.lson[q]] = e.dad[q]] ELSE e.dad
             lson1 == IF deep THEN [e.lson EXCEPT ![q] = dad1[p]] ELSE e.lson
             dad2 == IF deep THEN [dad1 EXCEPT ![lson1[p]] = q] ELSE dad1
             rson2 == [rson1 EXCEPT ![q] = rson1[p]]
         IN [q |-> q, lson |-> lson1, rson |-> rson2,
             dad |-> [dad2 EXCEPT ![rson2[p]] = q]]

delete_node(enc, p) ==
    IF enc.dad[p] = NIL THEN enc
    ELSE Then(delete_replacement(enc, p), LAMBDA d :
         LET dad1 == [d.dad EXCEPT ![d.q] = d.dad[p]]
             right == d.rson[dad1[p]] = p
         IN [enc EXCEPT !.dad = [dad1 EXCEPT ![p] = NIL],
                        !.lson = IF right THEN d.lson ELSE [d.lson EXCEPT ![dad1[p]] = d.q],
                        !.rson = IF right THEN [d.rson EXCEPT ![dad1[p]] = d.q] ELSE d.rson])

\* encode_char: the code of symbol c is read off the path from its leaf to
\* the root, then the model is updated
RECURSIVE encode_char_loop(_, _)
encode_char_loop(w, n) ==
    IF w.done \/ n = 0 THEN w
    ELSE IF n > 1
    THEN Then(encode_char_loop(w, n \div 2),
              LAMBDA h : encode_char_loop(h, n - n \div 2))
    ELSE [parents |-> w.parents,
          i |-> IF w.k % 2 # 0 THEN (w.i \div 2 + 32768) % 2^16 ELSE w.i \div 2,
          j |-> w.j + 1,
          k |-> w.parents[w.k],
          done |-> w.parents[w.k] = R]

encode_char(enc, c) ==
    LET w == encode_char_loop([parents |-> enc.state.parents, i |-> 0, j |-> 0,
                               k |-> enc.state.parents[c + T], done |-> FALSE], T)
    IN [enc EXCEPT !.output = put_code(enc.output, w.j, w.i),
                   !.state = LzHufState_update(enc.state, c)]

encode_position(enc, c) ==
    LET i == c \div 2^6
    IN [enc EXCEPT !.output =
            put_code(put_code(enc.output, p_len[i + 1], p_code[i + 1] * 2^8),
                     6, ((c % 2^6) * 2^10) % 2^16)]

\* encode, the inserts before the main loop: r - 1, r - 2, .., r - F
RECURSIVE encode_init_loop(_, _)
encode_init_loop(w, n) ==
    IF w.done \/ n = 0 THEN w
    ELSE IF n > 1
    THEN Then(encode_init_loop(w, n \div 2),
              LAMBDA h : encode_init_loop(h, n - n \div 2))
    ELSE [e |-> insert_node(w.e, w.r - w.i), r |-> w.r, i |-> w.i + 1,
          done |-> w.i + 1 > F]

\* encode, the two loops that move the window on by last_match_len bytes:
\* while the input lasts a byte is read in, after its end len counts down.
\* len is a u16: len -= 1 at 0 panics in a debug build and wraps in a
\* release build; the pass stops there with underflow set.
RECURSIVE encode_shift_loop(_, _)
encode_shift_loop(w, n) ==
    IF w.done \/ n = 0 THEN w
    ELSE IF n > 1
    THEN Then(encode_shift_loop(w, n \div 2),
              LAMBDA h : encode_shift_loop(h, n - n \div 2))
    ELSE LET s1 == (w.s + 1) % N
             r1 == (w.r + 1) % N
         IN IF w.iterator # <<>>
            THEN Then(delete_node(w.e, w.s), LAMBDA d :
                 LET c == Head(w.iterator)
                     tb == IF w.s < F - 1
                           THEN [d.state.text_buffer EXCEPT ![w.s] = c, ![w.s + N] = c]
                           ELSE [d.state.text_buffer EXCEPT ![w.s] = c]
                 IN [w EXCEPT !.e = insert_node([d EXCEPT !.state.text_buffer = tb], r1),
                              !.iterator = Tail(w.iterator),
                              !.s = s1, !.r = r1, !.i = w.i + 1,
                              !.done = w.i + 1 >= w.last])
            ELSE IF w.len = 0
            THEN [w EXCEPT !.e = delete_node(w.e, w.s), !.s = s1, !.r = r1,
                           !.i = w.i + 1, !.underflow = TRUE, !.done = TRUE]
            ELSE Then(delete_node(w.e, w.s), LAMBDA d :
                 [w EXCEPT !.e = IF w.len - 1 > 0 THEN insert_node(d, r1) ELSE d,
                           !.s = s1, !.r = r1, !.len = w.len - 1, !.i = w.i + 1,
                           !.done = w.i + 1 >= w.last])

\* encode, the symbol of one pass of the main loop
encode_symbol(e, r, len) ==
    LET clamped == IF e.match_length > len THEN len ELSE e.match_length
    IN IF clamped <= THRESHOLD
       THEN encode_char([e EXCEPT !.match_length = 1], e.state.text_buffer[r])
       ELSE Then(encode_char([e EXCEPT !.match_length = clamped],
                             255 - THRESHOLD + clamped),
                 LAMBDA e1 : encode_position(e1, e1.match_position))

\* Decoder
Decoder_new(input) ==
    [state |-> LzHufState_new,
     stream |-> [bit_buffer |-> U32(0, 0), bit_pos |-> 0, input |-> input]]

\* decode_char, the walk from the root to a leaf, one bit per level
RECURSIVE decode_char_loop(_, _)
decode_char_loop(w, n) ==
    IF w.done \/ n = 0 THEN w
    ELSE IF n > 1
    THEN Then(decode_char_loop(w, n \div 2),
              LAMBDA h : decode_char_loop(h, n - n \div 2))
    ELSE Then(get_bit(w.stream), LAMBDA g :
         IF ~g.ret.some
         THEN [w EXCEPT !.stream = g.stream, !.eof = TRUE, !.done = TRUE]
         ELSE [w EXCEPT !.stream = g.stream,
                        !.c = w.children[w.c + g.ret.val],
                        !.done = w.children[w.c + g.ret.val] >= T])

\* the decoder after the call and the Option<u16> returned
decode_char(dec) ==
    Then(decode_char_loop([children |-> dec.state.children, stream |-> dec.stream,
                           c |-> dec.state.children[R], eof |-> FALSE,
                           done |-> dec.state.children[R] >= T], T),
         LAMBDA w :
         IF w.eof THEN [dec |-> [dec EXCEPT !.stream = w.stream], ret |-> None]
         ELSE [dec |-> [state |-> LzHufState_update(dec.state, w.c - T),
                        stream |-> w.stream],
               ret |-> Some(w.c - T)])

\* decode_position, the bits that follow the first byte
RECURSIVE decode_position_loop(_, _)
decode_position_loop(w, n) ==
    IF w.done \/ n = 0 THEN w
    ELSE IF n > 1
    THEN Then(decode_position_loop(w, n \div 2),
              LAMBDA h : decode_position_loop(h, n - n \div 2))
    ELSE Then(get_bit(w.stream), LAMBDA g :
         IF ~g.ret.some
         THEN [w EXCEPT !.stream = g.stream, !.eof = TRUE, !.done = TRUE]
         ELSE [w EXCEPT !.stream = g.stream,
                        !.i = ((w.i * 2) % 2^16) + g.ret.val,
                        !.j = w.j - 1,
                        !.done = w.j - 1 = 0])

decode_position_zero_fill(dec) ==
    Then(get_byte(dec.stream), LAMBDA b :
         [dec |-> [dec EXCEPT !.stream = b.stream], ret |-> Some(0)])

\* DECODE_CODE[i] << 6 is a shift of a u8: the bits above the eighth are lost
decode_position(dec) ==
    Then(get_byte(dec.stream), LAMBDA b :
    IF ~b.ret.some THEN [dec |-> [dec EXCEPT !.stream = b.stream], ret |-> None]
    ELSE LET i == b.ret.val
             c == (DECODE_CODE[i + 1] * 2^6) % 2^8
             j == DECODE_LEN[i + 1] - 2
         IN Then(decode_position_loop([stream |-> b.stream, i |-> i, j |-> j,
                                       eof |-> FALSE, done |-> j = 0], 8),
                 LAMBDA w :
                 IF w.eof THEN [dec |-> [dec EXCEPT !.stream = w.stream], ret |-> None]
                 ELSE [dec |-> [dec EXCEPT !.stream = w.stream],
                       ret |-> Some(BitOr(c, w.i % 2^6))]))

\* decode, the copy of a match: buffer[count] panics past the end of buffer
RECURSIVE decode_copy_loop(_, _)
decode_copy_loop(w, n) ==
    IF w.done \/ n = 0 THEN w
    ELSE IF n > 1
    THEN Then(decode_copy_loop(w, n \div 2),
              LAMBDA h : decode_copy_loop(h, n - n \div 2))
    ELSE LET c == w.state.text_buffer[(w.i + w.k) % N]
         IN IF w.count >= Len(w.buffer) THEN [w EXCEPT !.panic = TRUE, !.done = TRUE]
            ELSE [w EXCEPT !.state = update_text_buffer(w.state, c),
                           !.buffer[w.count + 1] = c,
                           !.count = w.count + 1,
                           !.k = w.k + 1,
                           !.done = w.k + 1 >= w.j]

\* ------------------------------------------------------------------------
\* The codec run: Encoder::new, encode, finish, then Decoder::new on the
\* bytes produced and decode into a buffer of the length of the input
\* ------------------------------------------------------------------------
MaxInput == 3          \* the short inputs have 1..MaxInput bytes
RunLen == 32           \* length of the run of one byte
FarGap == 254          \* bytes between the two occurrences of the far match

CodecAlphabet == {32, 77}
RECURSIVE SeqsOf(_, _)
SeqsOf(S, n) ==
    IF n = 0 THEN {<<>>}
    ELSE {Append(q, b) : q \in SeqsOf(S, n - 1), b \in S}
\* ABC, gap bytes x, ABC: the second ABC matches the first one
FarMatch(gap) == <<65, 66, 67>> \o [i \in 1..gap |-> 120] \o <<65, 66, 67>>
CodecInputs ==
    UNION {SeqsOf(CodecAlphabet, n) : n \in 1..MaxInput}
      \cup {[i \in 1..RunLen |-> 77]}
      \cup {FarMatch(FarGap - 1), FarMatch(FarGap)}

InitCodec ==
    /\ InitController
    /\ frame = [pc |-> "off"]
    /\ fn = [pc |-> "off"]
    /\ \E input \in CodecInputs :
          codec = [pc |-> "encode", input |-> input, enc |-> Encoder_new]

\* encode up to its main loop: the first F bytes are read into the window
\* and the nodes r - 1 .. r - F and r are inserted
EncodeStart ==
    /\ codec.pc = "encode"
    /\ LET r == N - F
           len == IF Len(codec.input) < F THEN Len(codec.input) ELSE F
           tb == [x \in 0..(N + F - 2) |->
                     IF r <= x /\ x < r + len THEN codec.input[x - r + 1]
                     ELSE codec.enc.state.text_buffer[x]]
       IN \E w \in {encode_init_loop([e |-> [codec.enc EXCEPT !.state.text_buffer = tb],
                                      r |-> r, i |-> 1, done |-> FALSE], F)} :
          \E e \in {insert_node(w.e, r)} :
             codec' = [pc |-> "loop", input |-> codec.input, enc |-> e,
                       iterator |-> Drop(codec.input, len),
                       s |-> 0, r |-> r, len |-> len]
    /\ UNCHANGED <<ctlVars, frame, fn>>

\* one pass of the main loop of encode
EncodeStep ==
    /\ codec.pc = "loop"
    /\ \E e \in {encode_symbol(codec.enc, codec.r, codec.len)} :
       \E w \in {encode_shift_loop([e |-> e, iterator |-> codec.iterator,
                                    s |-> codec.s, r |-> codec.r, len |-> codec.len,
                                    i |-> 0, last |-> e.match_length,
                                    underflow |-> FALSE, done |-> FALSE], F)} :
          codec' = [codec EXCEPT
                      !.pc = IF w.e.state.panic THEN "panic"
                             ELSE IF w.underflow THEN "len_underflow"
                             ELSE IF w.len = 0 THEN "finish" ELSE "loop",
                      !.enc = w.e, !.iterator = w.iterator,
                      !.s = w.s, !.r = w.r, !.len = w.len]
    /\ UNCHANGED <<ctlVars, frame, fn>>

\* encoder.finish(): the encoder is dropped and its Bitbuffer flushed
EncoderFinish ==
    /\ codec.pc = "finish"
    /\ codec' = [pc |-> "encoded", input |-> codec.input,
                 output |-> Bitbuffer_drop(codec.enc.output)]
    /\ UNCHANGED <<ctlVars, frame, fn>>

\* Decoder::new on the encoder's output, and a zeroed buffer of |input| bytes
DecoderNew ==
    /\ codec.pc = "encoded"
    /\ codec' = [pc |-> "decode", input |-> codec.input, output |-> codec.output,
                 dec |-> Decoder_new(codec.output),
                 buffer |-> [i \in 1..Len(codec.input) |-> 0],
                 count |-> 0]
    /\ UNCHANGED <<ctlVars, frame, fn>>

\* how decode ended: Ok(()), Err(UnexpectedEof) or a panic; at names the
\* place decode was left at
DecodeEnd(result, written, at) ==
    [pc |-> result, input |-> codec.input, output |-> codec.output, buffer |-> written,
     at |-> at]

\* one pass of the loop of decode
DecodeStep ==
    /\ codec.pc = "decode"
    /\ codec.count < Len(codec.buffer)
    /\ \E ch \in {decode_char(codec.dec)} :
         IF ~ch.ret.some THEN codec' = DecodeEnd("eof", codec.buffer, "decode_char")
         ELSE IF ch.dec.state.panic THEN codec' = DecodeEnd("panic", codec.buffer, "update")
         ELSE IF ch.ret.val < 256
         THEN codec' = [codec EXCEPT
                          !.dec = [ch.dec EXCEPT !.state =
                                      update_text_buffer(ch.dec.state, ch.ret.val)],
                          !.buffer[codec.count + 1] = ch.ret.val,
                          !.count = codec.count + 1]
         ELSE \E pos \in {decode_position(ch.dec)} :
              IF ~pos.ret.some THEN codec' = DecodeEnd("eof", codec.buffer, "decode_position")
              ELSE \E w \in {decode_copy_loop(
                               [state |-> pos.dec.state, buffer |-> codec.buffer,
                                count |-> codec.count,
                                i |-> (ch.dec.state.r - pos.ret.val - 1) % N,
                                k |-> 0, j |-> ch.ret.val - 255 + THRESHOLD,
                                panic |-> FALSE, done |-> FALSE], F)} :
                   IF w.panic THEN codec' = DecodeEnd("panic", w.buffer, "copy")
                   ELSE codec' = [codec EXCEPT
                                    !.dec = [pos.dec EXCEPT !.state = w.state],
                                    !.buffer = w.buffer, !.count = w.count]
    /\ UNCHANGED <<ctlVars, frame, fn>>

\* the loop condition fails: decode returns Ok(())
DecodeReturn ==
    /\ codec.pc = "decode"
    /\ codec.count >= Len(codec.buffer)
    /\ codec' = DecodeEnd("ok", codec.buffer, "return")
    /\ UNCHANGED <<ctlVars, frame, fn>>

NextCodec ==
    \/ EncodeStart
    \/ EncodeStep
    \/ EncoderFinish
    \/ DecoderNew
    \/ DecodeStep
    \/ DecodeReturn

SpecCodec == InitCodec /\ [][NextCodec]_vars

\* C4: codec round trip: for every byte sequence s, decode run on the bytes
\* encode produced for s, with a buffer of |s| bytes, returns Ok and fills the
\* buffer with exactly s, matches that lie far back in the ring included.
C4_RoundTrip ==
    codec.pc \in {"ok", "eof", "panic", "len_underflow"}
        => codec.pc = "ok" /\ codec.buffer = codec.input

\* ------------------------------------------------------------------------
\* The adaptive Huffman tree alone: update called again and again, through
\* the call that runs reconstruct
\* ------------------------------------------------------------------------
HeadRoom == 1       \* updates left, at the start, before frequency[R] is MAX_FREQ
MaxSteps == 4       \* calls of update after the start

\* n calls of update, the i-th with the symbol pat[i mod |pat|], from call `from`
RECURSIVE UpdateRun(_, _, _, _)
UpdateRun(st, pat, from, n) ==
    IF n = 0 THEN st
    ELSE IF n > 1
    THEN Then(UpdateRun(st, pat, from, n \div 2),
              LAMBDA h : UpdateRun(h, pat, from + n \div 2, n - n \div 2))
    ELSE LzHufState_update(st, pat[(from % Len(pat)) + 1])

\* the symbol streams that bring the tree close to its first reconstruct:
\* one symbol repeated, a cycle of four symbols of unequal shares, and all
\* the symbols in turn
HuffmanRuns ==
    { <<65>>, <<65, 66, 65, 67, 65, 66, 65, 0>>, [i \in 1..N_CHAR |-> i - 1] }

\* the symbols update is called with afterwards
HuffmanSymbols == {0, 65, N_CHAR - 1}

\* the count of the leaf of symbol c
LeafFrequency(st, c) == st.frequency_table[st.parents[c + T]]
LeafFrequencies(st) == [c \in 0..(N_CHAR - 1) |-> LeafFrequency(st, c)]

InitHuffman ==
    /\ InitController
    /\ frame = [pc |-> "off"]
    /\ codec = [pc |-> "off"]
    /\ \E pat \in HuffmanRuns :
        \E st \in {UpdateRun(LzHufState_new, pat, 0, MAX_FREQ - N_CHAR - HeadRoom)} :
           fn = [pc |-> "huffman", st |-> st, n |-> 0, c |-> 0,
                 reconstructed |-> FALSE, reconstructs |-> 0,
                 before |-> LeafFrequencies(st)]

\* one call of update(c); fn.before keeps the leaf counts the call found and
\* fn.reconstructed tells whether it ran reconstruct
HuffmanUpdate ==
    /\ fn.pc = "huffman"
    /\ fn.n < MaxSteps
    /\ \E c \in HuffmanSymbols :
        \E st \in {LzHufState_update(fn.st, c)} :
           fn' = [pc |-> "huffman", st |-> st, n |-> fn.n + 1, c |-> c,
                  reconstructed |-> fn.st.frequency_table[R] = MAX_FREQ,
                  reconstructs |-> fn.reconstructs +
                      (IF fn.st.frequency_table[R] = MAX_FREQ THEN 1 ELSE 0),
                  before |-> LeafFrequencies(fn.st)]
    /\ UNCHANGED <<ctlVars, frame, codec>>

NextHuffman == HuffmanUpdate

SpecHuffman == InitHuffman /\ [][NextHuffman]_vars

\* C15: sibling ordering: frequency[j-1] <= frequency[j] for every j with
\* N_CHAR <= j < T, after any sequence of calls of update, those that run
\* reconstruct included (and no call has panicked).
C15_SiblingOrdering ==
    fn.pc = "huffman" =>
        /\ ~fn.st.panic
        /\ \A j \in N_CHAR..(T - 1) :
              fn.st.frequency_table[j - 1] <= fn.st.frequency_table[j]

\* reconstruct has run and update has been called again since
C15_Witness ==
    /\ fn.pc = "huffman"
    /\ fn.reconstructs >= 1
    /\ ~fn.reconstructed
    /\ fn.n >= 3

\* C16: frequency[R] <= MAX_FREQ and every leaf count is at least 1; the
\* root count is the sum of the leaf counts; and a call of update that found
\* frequency[R] = MAX_FREQ has replaced each leaf count f by (f + 1) / 2
\* before counting its own symbol.
C16_FrequencyBounds ==
    fn.pc = "huffman" =>
        /\ fn.st.frequency_table[R] <= MAX_FREQ
        /\ \A c \in 0..(N_CHAR - 1) : LeafFrequency(fn.st, c) >= 1
        /\ fn.st.frequency_table[R] = SumRange(LeafFrequencies(fn.st), 0, N_CHAR - 1)
        /\ fn.n > 0 =>
              \A c \in 0..(N_CHAR - 1) :
                 LeafFrequency(fn.st, c) =
                    (IF SumRange(fn.before, 0, N_CHAR - 1) = MAX_FREQ
                     THEN (fn.before[c] + 1) \div 2 ELSE fn.before[c])
                    + (IF c = fn.c THEN 1 ELSE 0)

\* the call that ran reconstruct halved a leaf count above 2
C16_Witness ==
    /\ fn.pc = "huffman"
    /\ fn.reconstructed
    /\ \E c \in 0..(N_CHAR - 1) :
          fn.before[c] > 2 /\ LeafFrequency(fn.st, c) = (fn.before[c] + 1) \div 2

\* ========================================================================
\* Station identities (types.rs)
\* ========================================================================
Lower == 97..122
Letters == Upper \cup Lower

\* STATION: ([0-9]?[A-Za-z]+)([0-9]+)([A-Za-z][A-Za-z0-9]*), the regex as it
\* is compiled, without anchors: the positions at which a match that starts
\* at position i can end
STATION(s, i) ==
    {e \in 1..Len(s) :
        \E a \in {i} \cup (IF i <= Len(s) /\ s[i] \in Digits THEN {i + 1} ELSE {}) :
        \E b \in (a + 1)..Len(s) :
        \E c \in (b + 1)..e :
            /\ \A x \in a..(b - 1) : s[x] \in Letters
            /\ \A x \in b..(c - 1) : s[x] \in Digits
            /\ s[c] \in Letters
            /\ \A x \in (c + 1)..e : s[x] \in Letters \cup Digits}

\* Regex::is_match: a search, true when a match starts at some position
is_match(s) == \E i \in 1..Len(s) : STATION(s, i) # {}

to_ascii_uppercase(s) == [i \in 1..Len(s) |-> IF s[i] \in Lower THEN s[i] - 32 ELSE s[i]]

\* Normalizer::normalize for StationId
normalize(s) ==
    IF is_match(s)
    THEN [ok |-> TRUE,
          val |-> IF \E i \in 1..Len(s) : s[i] \in Lower
                  THEN to_ascii_uppercase(s) ELSE s]
    ELSE [ok |-> FALSE, err |-> "InvalidStationId"]

MaxIdLen == 5       \* bytes of a string handed to StationId::new

\* a digit, an upper-case and a lower-case letter, and a byte of no class
StationAlphabet == {49, 75, 97, 45}

StationInputs == UNION {SeqsOf(StationAlphabet, n) : n \in 0..MaxIdLen}

InitStation ==
    /\ InitController
    /\ frame = [pc |-> "off"]
    /\ codec = [pc |-> "off"]
    /\ \E s \in StationInputs : fn = [pc |-> "input", s |-> s]

\* StationId::new(s)
StationNew ==
    /\ fn.pc = "input"
    /\ fn' = [pc |-> "made", s |-> fn.s, r |-> normalize(fn.s)]
    /\ UNCHANGED <<ctlVars, frame, codec>>

\* StationId::new on the value of a StationId
StationAgain ==
    /\ fn.pc = "made"
    /\ fn.r.ok
    /\ fn' = [pc |-> "again", s |-> fn.s, r |-> fn.r, r2 |-> normalize(fn.r.val)]
    /\ UNCHANGED <<ctlVars, frame, codec>>

NextStation ==
    \/ StationNew
    \/ StationAgain

SpecStation == InitStation /\ [][NextStation]_vars

\* the whole of s matches the pattern
WholeMatch(s) == Len(s) > 0 /\ Len(s) \in STATION(s, 1)

\* C17: StationId construction succeeds exactly for the strings that match
\* the pattern as a whole, the value is the input in upper case, and
\* constructing from that value gives the same value.
C17_StationIdPattern ==
    /\ fn.pc \in {"made", "again"} =>
          /\ fn.r.ok <=> WholeMatch(fn.s)
          /\ fn.r.ok => fn.r.val = to_ascii_uppercase(fn.s)
    /\ fn.pc = "again" => fn.r2.ok /\ fn.r2.val = fn.r.val

\* ========================================================================
\* FBB proposal and selection lines (fbb.rs)
\* ========================================================================
\* nom::bytes::streaming::tag
tag(t, data) ==
    IF Len(data) >= Len(t)
    THEN (IF SubSeq(data, 1, Len(t)) = t THEN POk(Drop(data, Len(t)), t) ELSE PError)
    ELSE IF data = SubSeq(t, 1, Len(data)) THEN PIncomplete(Len(t) - Len(data))
    ELSE PError

\* nom::bytes::streaming::take_while_m_n over the bytes of the set S
take_while_m_n(m, n, S, data) ==
    Then(PrefixLen(data, S), LAMBDA idx :
    IF idx < Len(data)
    THEN (IF idx >= m
          THEN POk(Drop(data, IF idx <= n THEN idx ELSE n),
                   SubSeq(data, 1, IF idx <= n THEN idx ELSE n))
          ELSE PError)
    ELSE IF Len(data) >= n THEN POk(Drop(data, n), SubSeq(data, 1, n))
    ELSE PIncomplete(IF m > Len(data) THEN m - Len(data) ELSE 1))

\* a parser followed by what is done with its result: an Error or an
\* Incomplete is returned as it is
AndThen(r, K(_)) == CHOOSE x \in {IF a.kind # "Ok" THEN a ELSE K(a) : a \in {r}} : TRUE

\* alt: the first parser decides unless it returns an Error
OrElse(r, K(_)) == CHOOSE x \in {IF a.kind # "Error" THEN a ELSE K(a) : a \in {r}} : TRUE

\* alt over tags of one byte
RECURSIVE alt_tags(_, _)
alt_tags(ts, data) ==
    IF ts = <<>> THEN PError
    ELSE OrElse(tag(<<Head(ts)>>, data), LAMBDA e : alt_tags(Tail(ts), data))

\* u16::from_str_radix(s, 10) on a string of 1 to 6 digits
u16_from_str_radix(ds) ==
    Then(DecimalValue(ds), LAMBDA v :
         IF v > 65535 THEN [ok |-> FALSE] ELSE [ok |-> TRUE, val |-> v])

\* every byte but the delimiters ' ' and CR
NotDelimiter == (0..255) \ {SP, CR}

\* map_res(map_res(take_while_m_n(1, 6, is_digit), from_utf8), u16::from_str_radix)
message_size(data) ==
    AndThen(take_while_m_n(1, 6, Digits, data), LAMBDA d :
    Then(u16_from_str_radix(d.val), LAMBDA v :
         IF v.ok THEN POk(d.rest, v.val) ELSE PError))

Accept(offset) == [choice |-> "Accept", offset |-> offset]
Defer == [choice |-> "Defer"]
Reject == [choice |-> "Reject"]

selection_element(data) ==
    OrElse(AndThen(alt_tags(<<43, 89, 72>>, data), LAMBDA a : POk(a.rest, Accept(0))),
        LAMBDA e1 :
    OrElse(AndThen(alt_tags(<<33, 65>>, data), LAMBDA b :
        AndThen(message_size(b.rest), LAMBDA n : POk(n.rest, Accept(n.val)))),
        LAMBDA e2 :
    OrElse(AndThen(alt_tags(<<61, 76>>, data), LAMBDA c : POk(c.rest, Defer)),
        LAMBDA e3 :
    AndThen(alt_tags(<<45, 78, 82, 69>>, data), LAMBDA d : POk(d.rest, Reject)))))

\* the loop of selection::<P> over the P responses
RECURSIVE selection_loop(_, _, _)
selection_loop(P, data, responses) ==
    IF P = 0 THEN POk(data, responses)
    ELSE AndThen(selection_element(data), LAMBDA e :
             selection_loop(P - 1, e.rest, Append(responses, e.val)))

S_FS == <<70, 83>>

selection(P, data) ==
    AndThen(tag(S_FS, data), LAMBDA t :
    AndThen(tag(<<SP>>, t.rest), LAMBDA sp :
    selection_loop(P, sp.rest, <<>>)))

message_type(data) ==
    AndThen(alt_tags(<<80, 66, 84>>, data), LAMBDA t :
        POk(t.rest, CASE t.val = <<80>> -> "Private"
                      [] t.val = <<66>> -> "Bulletin"
                      [] t.val = <<84>> -> "Traffic"))

sender(data) == take_while_m_n(1, 6, NotDelimiter, data)
message_id(data) == take_while_m_n(1, 12, NotDelimiter, data)

\* separated_pair(mbo, tag(" "), recipient)
recipient(data) ==
    AndThen(take_while_m_n(1, 40, NotDelimiter, data), LAMBDA mbo :
    AndThen(tag(<<SP>>, mbo.rest), LAMBDA sp :
    AndThen(take_while_m_n(1, 6, NotDelimiter, sp.rest), LAMBDA r :
    POk(r.rest, [recipient |-> r.val, mbo |-> mbo.val]))))

\* preceded(tag(" "), p)
AfterSpace(data, p(_)) == AndThen(tag(<<SP>>, data), LAMBDA sp : p(sp.rest))

S_FA == <<70, 65>>
S_FB == <<70, 66>>
S_FC == <<70, 67>>
S_EM == <<69, 77>>

fbb_proposal(data) ==
    AndThen(OrElse(tag(S_FA, data), LAMBDA e : tag(S_FB, data)), LAMBDA t0 :
    AndThen(AfterSpace(t0.rest, message_type), LAMBDA ty :
    AndThen(AfterSpace(ty.rest, sender), LAMBDA se :
    AndThen(AfterSpace(se.rest, recipient), LAMBDA re :
    AndThen(AfterSpace(re.rest, message_id), LAMBDA id :
    AndThen(AfterSpace(id.rest, message_size), LAMBDA sz :
    AndThen(tag(<<CR>>, sz.rest), LAMBDA cr :
    POk(cr.rest, [message_type |-> ty.val, sender |-> se.val,
                  addressee |-> re.val, message_id |-> id.val,
                  message_size |-> sz.val]))))))))

\* opt(tuple((preceded(tag(" "), sender), preceded(tag(" "), recipient))))
bqp_extension(data) ==
    Then(AndThen(AfterSpace(data, sender), LAMBDA se :
         AndThen(AfterSpace(se.rest, recipient), LAMBDA re :
         POk(re.rest, Some([sender |-> se.val, addressee |-> re.val])))),
         LAMBDA o : IF o.kind = "Error" THEN POk(data, None) ELSE o)

winlink_proposal(data) ==
    AndThen(tag(S_FC, data), LAMBDA t0 :
    AndThen(AfterSpace(t0.rest, LAMBDA d : tag(S_EM, d)), LAMBDA em :
    AndThen(AfterSpace(em.rest, message_id), LAMBDA id :
    AndThen(AfterSpace(id.rest, message_size), LAMBDA s1 :
    AndThen(AfterSpace(s1.rest, message_size), LAMBDA s2 :
    AndThen(bqp_extension(s2.rest), LAMBDA ex :
    AndThen(tag(<<CR>>, ex.rest), LAMBDA cr :
    POk(cr.rest, [message_id |-> id.val,
                  uncompressed_message_size |-> s1.val,
                  compressed_message_size |-> s2.val,
                  bqp_extension |-> ex.val]))))))))

\* ------------------------------------------------------------------------
\* Lines handed to the parsers
\* ------------------------------------------------------------------------
MaxProposals == 2   \* selection tokens of an FS line

\* 0, the largest u16, the number after it, and the largest of six digits
OffsetDigits ==
    { <<48>>, <<54, 53, 53, 51, 53>>, <<54, 53, 53, 51, 54>>, <<57, 57, 57, 57, 57, 57>> }

SelectionTokens ==
    { <<43>>, <<89>>, <<72>>, <<61>>, <<76>>, <<45>>, <<78>>, <<82>>, <<69>> }
    \cup { <<l>> \o d : l \in {33, 65}, d \in OffsetDigits }

Run(b, n) == [i \in 1..n |-> b]

\* sizes of one to six digits, and one of seven digits
SizeDigits == OffsetDigits \cup { <<48, 48, 48, 48, 48, 48, 49>> }

\* the fields of a proposal line, each at its shortest, at its bound and one
\* byte over its bound
Senders == {Run(83, n) : n \in {1, 6, 7}}
Mbos == {Run(77, n) : n \in {1, 40, 41}}
Recipients == {Run(82, n) : n \in {1, 6, 7}}
MessageIds == {Run(73, n) : n \in {1, 12, 13}}

FbbLines ==
    [kind : {"FA"}, lead : {S_FA, S_FB}, type : {<<80>>, <<66>>, <<84>>},
     sender : Senders, mbo : Mbos, recipient : Recipients, id : MessageIds,
     size : SizeDigits]

WinlinkLines ==
    [kind : {"FC"}, id : MessageIds, size : SizeDigits, csize : SizeDigits,
     ext : {None} \cup {Some(e) : e \in [sender : Senders, mbo : Mbos,
                                          recipient : Recipients]}]

SelectionLines ==
    [kind : {"FS"},
     tokens : UNION {SeqsOf(SelectionTokens, n) : n \in 1..MaxProposals}]

\* the bytes of a line
LineBytes(l) ==
    CASE l.kind = "FS" -> S_FS \o <<SP>> \o Flatten(l.tokens) \o <<CR>>
      [] l.kind = "FA" ->
            l.lead \o <<SP>> \o l.type \o <<SP>> \o l.sender \o <<SP>> \o l.mbo
            \o <<SP>> \o l.recipient \o <<SP>> \o l.id \o <<SP>> \o l.size \o <<CR>>
      [] l.kind = "FC" ->
            S_FC \o <<SP>> \o S_EM \o <<SP>> \o l.id \o <<SP>> \o l.size
            \o <<SP>> \o l.csize
            \o (IF l.ext.some
                THEN <<SP>> \o l.ext.val.sender \o <<SP>> \o l.ext.val.mbo
                     \o <<SP>> \o l.ext.val.recipient
                ELSE <<>>)
            \o <<CR>>

InitLines ==
    /\ InitController
    /\ frame = [pc |-> "off"]
    /\ codec = [pc |-> "off"]
    /\ \E l \in SelectionLines \cup FbbLines \cup WinlinkLines :
          fn = [pc |-> "line", line |-> l, data |-> LineBytes(l)]

\* selection::<P> on an FS line of P tokens
Selection ==
    /\ fn.pc = "line"
    /\ fn.line.kind = "FS"
    /\ fn' = [pc |-> "parsed", line |-> fn.line, data |-> fn.data,
              r |-> selection(Len(fn.line.tokens), fn.data)]
    /\ UNCHANGED <<ctlVars, frame, codec>>

FbbProposal ==
    /\ fn.pc = "line"
    /\ fn.line.kind = "FA"
    /\ fn' = [pc |-> "parsed", line |-> fn.line, data |-> fn.data,
              r |-> fbb_proposal(fn.data)]
    /\ UNCHANGED <<ctlVars, frame, codec>>

WinlinkProposal ==
    /\ fn.pc = "line"
    /\ fn.line.kind = "FC"
    /\ fn' = [pc |-> "parsed", line |-> fn.line, data |-> fn.data,
              r |-> winlink_proposal(fn.data)]
    /\ UNCHANGED <<ctlVars, frame, codec>>

NextLines ==
    \/ Selection
    \/ FbbProposal
    \/ WinlinkProposal

SpecLines == InitLines /\ [][NextLines]_vars

\* the choice a selection token stands for
ChoiceOf(token) ==
    CASE token[1] \in {33, 65} -> Accept(DecimalValue(Tail(token)))
      [] token[1] \in {43, 89, 72} -> Accept(0)
      [] token[1] \in {61, 76} -> Defer
      [] token[1] \in {45, 78, 82, 69} -> Reject

\* C18: an FS line is parsed into one choice per token, in line order: !n
\* and An with 1 to 6 digits give Accept with offset n for every n up to
\* 999999, + Y H give Accept 0, = L Defer, - N R E Reject.
C18_SelectionOffsets ==
    (fn.pc = "parsed" /\ fn.line.kind = "FS") =>
        /\ fn.r.kind = "Ok"
        /\ fn.r.val = [i \in 1..Len(fn.line.tokens) |-> ChoiceOf(fn.line.tokens[i])]

\* every field of the proposal line is within its length bound
WithinBounds(l) ==
    /\ Len(l.id) <= 12 /\ Len(l.size) <= 6
    /\ l.kind = "FA" =>
          Len(l.sender) <= 6 /\ Len(l.mbo) <= 40 /\ Len(l.recipient) <= 6
    /\ l.kind = "FC" =>
          /\ Len(l.csize) <= 6
          /\ l.ext.some =>
                /\ Len(l.ext.val.sender) <= 6
                /\ Len(l.ext.val.mbo) <= 40
                /\ Len(l.ext.val.recipient) <= 6

\* C19: a proposal line whose fields are within their bounds is accepted
\* and the sizes parsed are the decimal values written (FC: uncompressed
\* first, compressed second); a line with a field over its bound is rejected.
C19_ProposalSizes ==
    (fn.pc = "parsed" /\ fn.line.kind \in {"FA", "FC"}) =>
        IF WithinBounds(fn.line)
        THEN /\ fn.r.kind = "Ok"
             /\ fn.line.kind = "FA" =>
                   fn.r.val.message_size = DecimalValue(fn.line.size)
             /\ fn.line.kind = "FC" =>
                   /\ fn.r.val.uncompressed_message_size = DecimalValue(fn.line.size)
                   /\ fn.r.val.compressed_message_size = DecimalValue(fn.line.csize)
        ELSE fn.r.kind = "Error"

\* ========================================================================
\* The wire form of the commands (vara.rs, impl Display)
\* ========================================================================
W1AW == <<87, 49, 65, 87>>
Stations == {KC1GSL, KW1U, W1AW}

MaxAliases == 2     \* alias calls of a MYCALL command

ConnectPaths ==
    {[hops |-> "Direct"]}
    \cup {[hops |-> "OneHop", digipeater |-> d] : d \in Stations}
    \cup {[hops |-> "TwoHops", first |-> a, second |-> b] : a, b \in Stations}

Commands ==
    {[op |-> "Listen", mode |-> m] : m \in {"Disable", "CQ", "Enable"}}
    \cup {[op |-> "Connect", origin |-> a, target |-> b, path |-> p] :
              a \in Stations, b \in Stations, p \in ConnectPaths}
    \cup {[op |-> "Disconnect"], [op |-> "Abort"]}
    \cup {[op |-> "SetCall", primary |-> a, aliases |-> l] :
              a \in Stations, l \in UNION {SeqsOf(Stations, n) : n \in 0..MaxAliases}}
    \cup {[op |-> "SetCompression", mode |-> m] : m \in {"Off", "Text", "Files"}}
    \cup {[op |-> "SetBandwidth", mode |-> m] : m \in {"Narrow", "Wide", "Tactical"}}

\* write!(&mut cmd_buffer, "{}\r", command) in manage_modem_thread
CommandLine(c) == CommandStr(c) \o <<CR>>

InitCommand ==
    /\ InitController
    /\ frame = [pc |-> "off"]
    /\ codec = [pc |-> "off"]
    /\ \E c \in Commands : fn = [pc |-> "command", cmd |-> c]

\* the command is formatted into cmd_buffer
FormatCommand ==
    /\ fn.pc = "command"
    /\ fn' = [pc |-> "written", cmd |-> fn.cmd, cmd_buffer |-> CommandLine(fn.cmd)]
    /\ UNCHANGED <<ctlVars, frame, codec>>

NextCommand == FormatCommand

SpecCommand == InitCommand /\ [][NextCommand]_vars

\* a keyword without the space that follows it
Keyword(k) == IF k[Len(k)] = SP THEN SubSeq(k, 1, Len(k) - 1) ELSE k

\* the tokens of a command: its keyword, then its arguments
Tokens(c) ==
    CASE c.op = "Listen" -> <<Keyword(S_LISTEN), ListenModeStr(c.mode)>>
      [] c.op = "Connect" ->
            <<Keyword(S_CONNECT), c.origin, c.target>>
            \o (CASE c.path.hops = "Direct" -> <<>>
                  [] c.path.hops = "OneHop" -> <<<<118, 105, 97>>, c.path.digipeater>>
                  [] c.path.hops = "TwoHops" ->
                        <<<<118, 105, 97>>, c.path.first, c.path.second>>)
      [] c.op = "Disconnect" -> <<S_DISCONNECT>>
      [] c.op = "Abort" -> <<S_ABORT>>
      [] c.op = "SetCall" -> <<Keyword(S_MYCALL), c.primary>> \o c.aliases
      [] c.op = "SetCompression" -> <<Keyword(S_COMPRESSION), CompressionModeStr(c.mode)>>
      [] c.op = "SetBandwidth" -> <<S_BW \o BandwidthModeStr(c.mode)>>

\* the tokens with one space between adjacent ones
RECURSIVE Spaced(_)
Spaced(ts) ==
    IF Len(ts) = 1 THEN ts[1] ELSE ts[1] \o <<SP>> \o Spaced(Tail(ts))

\* C20: every command is written as its keyword and its arguments with
\* exactly one space between adjacent tokens (BW with its width attached),
\* followed by one CR; for Connect: A B, A B via D1, A B via D1 D2.
C20_CommandWireForm ==
    fn.pc = "written" => fn.cmd_buffer = Spaced(Tokens(fn.cmd)) \o <<CR>>

\* ========================================================================
\* The bit reader alone (lzhuf.rs, Biterator)
\* ========================================================================
MaxBytes == 3       \* bytes of input of the bit reader
MaxNone == 2        \* calls answered None that a run goes on after

\* Biterator::new
Biterator_new(input) == [bit_buffer |-> U32(0, 0), bit_pos |-> 0, input |-> input]

ReaderAlphabet == {0, 80, 150, 250, 255}
ReaderInputs == UNION {SeqsOf(ReaderAlphabet, n) : n \in 0..MaxBytes}

InitReader ==
    /\ InitController
    /\ frame = [pc |-> "off"]
    /\ codec = [pc |-> "off"]
    /\ \E i \in ReaderInputs :
          fn = [pc |-> "reader", input |-> i, b |-> Biterator_new(i),
                op |-> "new", ret |-> None, before |-> 0, taken |-> 0, nones |-> 0]

\* one call; before and taken count the bits handed out before and after it
ReaderCall(op, r, width) ==
    /\ fn.pc = "reader"
    /\ fn.nones <= MaxNone
    /\ fn' = [fn EXCEPT !.b = r.stream, !.op = op, !.ret = r.ret,
                        !.before = fn.taken,
                        !.taken = fn.taken + (IF r.ret.some THEN width ELSE 0),
                        !.nones = fn.nones + (IF r.ret.some THEN 0 ELSE 1)]
    /\ UNCHANGED <<ctlVars, frame, codec>>

GetBit == \E r \in {get_bit(fn.b)} : ReaderCall("get_bit", r, 1)
GetByte == \E r \in {get_byte(fn.b)} : ReaderCall("get_byte", r, 8)

NextReader == GetBit \/ GetByte

SpecReader == InitReader /\ [][NextReader]_vars

\* bit k of the input, counted from the most significant bit of byte 1
BitAt(input, k) == (input[(k \div 8) + 1] \div 2^(7 - (k % 8))) % 2

RECURSIVE BitsValue(_, _, _)
BitsValue(input, k, n) ==
    IF n = 0 THEN 0 ELSE 2 * BitsValue(input, k, n - 1) + BitAt(input, k + n - 1)

\* C21: whatever get_bit and get_byte calls came before, get_bit returns the
\* next unread bit of the input (most significant bit of each byte first) and
\* None exactly when all 8n bits are consumed; get_byte returns the next 8
\* unread bits and None exactly when fewer than 8 remain, consuming nothing.
C21_BitReader ==
    fn.pc = "reader" =>
        /\ fn.op = "get_bit" =>
              fn.ret = IF fn.before < 8 * Len(fn.input)
                       THEN Some(BitAt(fn.input, fn.before)) ELSE None
        /\ fn.op = "get_byte" =>
              fn.ret = IF 8 * Len(fn.input) - fn.before >= 8
                       THEN Some(BitsValue(fn.input, fn.before, 8)) ELSE None

\* a get_bit that reads bits get_byte refused, after both kinds were mixed
\* at a position that is no byte boundary
C21_Witness ==
    /\ fn.pc = "reader"
    /\ fn.op = "get_bit"
    /\ fn.ret.some
    /\ fn.nones > 0
    /\ fn.before > 8
    /\ fn.before % 8 # 0
    /\ Len(fn.input) = MaxBytes

\* ========================================================================
\* The bit writer alone (lzhuf.rs, Bitbuffer)
\* ========================================================================
MaxCodes == 3       \* put_code calls before the writer is dropped

\* Bitbuffer::new
Bitbuffer_new == [bit_buffer |-> 0, bit_pos |-> 0, output |-> <<>>, shl_overflow |-> FALSE]

WriterLengths == {1, 3, 7, 8, 9, 15, 16}
CodePatterns == {65535, 42435}

\* a code of length l: the low 16 - l bits are zero
CodeOf(l, p) == (p \div 2^(16 - l)) * 2^(16 - l)

\* build is the build profile: a shift by 16 panics with overflow checks
\* (debug) and shifts by 0 without them (release)
InitWriter ==
    /\ InitController
    /\ frame = [pc |-> "off"]
    /\ codec = [pc |-> "off"]
    /\ \E b \in {"debug", "release"} :
          fn = [pc |-> "writer", build |-> b, o |-> Bitbuffer_new, codes |-> <<>>]

WriterPut ==
    /\ fn.pc = "writer"
    /\ Len(fn.codes) < MaxCodes
    /\ \E l \in WriterLengths, p \in CodePatterns :
         \E o \in {put_code(fn.o, l, CodeOf(l, p))} :
            fn' = [fn EXCEPT !.o = o,
                             !.codes = Append(fn.codes, <<l, CodeOf(l, p)>>),
                             !.pc = IF o.shl_overflow /\ fn.build = "debug"
                                    THEN "panicked" ELSE "writer"]
    /\ UNCHANGED <<ctlVars, frame, codec>>

\* finish(self), or the end of the scope: Drop for Bitbuffer
WriterDrop ==
    /\ fn.pc = "writer"
    /\ fn' = [pc |-> "dropped", build |-> fn.build, codes |-> fn.codes,
              output |-> Bitbuffer_drop(fn.o)]
    /\ UNCHANGED <<ctlVars, frame, codec>>

NextWriter == WriterPut \/ WriterDrop

SpecWriter == InitWriter /\ [][NextWriter]_vars

\* the top l bits of every code, most significant first, one after the other
RECURSIVE CodeBits(_)
CodeBits(codes) ==
    IF codes = <<>> THEN <<>>
    ELSE [i \in 1..codes[1][1] |-> (codes[1][2] \div 2^(16 - i)) % 2]
         \o CodeBits(Tail(codes))

\* bits packed into bytes, the last byte filled up with zero bits
PackBits(bits) ==
    [j \in 1..((Len(bits) + 7) \div 8) |->
        SumRange([i \in 1..8 |-> IF 8 * (j - 1) + i <= Len(bits)
                                 THEN bits[8 * (j - 1) + i] * 2^(8 - i) ELSE 0], 1, 8)]

\* C22: for put_code calls with 1 <= length <= 16 and the unused low bits
\* zero, at any alignment, no call fails and the output after the drop is the
\* top `length` bits of each code, MSB first, zero-padded to a byte boundary
\* (so the partial byte appears once, and not at all on a byte boundary).
C22_BitWriter ==
    /\ fn.pc # "panicked"
    /\ fn.pc = "dropped" => fn.output = PackBits(CodeBits(fn.codes))

\* ========================================================================
\* The decoder alone (lzhuf.rs, Decoder::decode): any bytes, any buffer
\* ========================================================================
MaxCoded == 4       \* bytes handed to Decoder::new

CodedAlphabet == {0, 128, 255}
CodedInputs == UNION {SeqsOf(CodedAlphabet, n) : n \in 0..MaxCoded}
\* buffer lengths: none, shorter than a match, one literal and the longest
\* match, and room to spare after them
BufferLengths == {0, 1, 2, F + 1, F + 4}

\* codec.output is the byte sequence decoded; no encoder ran (input is empty)
InitDecode ==
    /\ InitController
    /\ frame = [pc |-> "off"]
    /\ fn = [pc |-> "off"]
    /\ \E bytes \in CodedInputs, n \in BufferLengths :
          codec = [pc |-> "decode", input |-> <<>>, output |-> bytes,
                   dec |-> Decoder_new(bytes),
                   buffer |-> [i \in 1..n |-> 0],
                   count |-> 0]

NextDecode == DecodeStep \/ DecodeReturn

SpecDecode == InitDecode /\ [][NextDecode]_vars

\* bits of the input the reader has not handed out yet
UnreadBits(stream) == stream.bit_pos + 8 * Len(stream.input)

\* the bits a walk from node c down to a leaf takes, reading the input from
\* bit k on: -1 if the input ends before a leaf is reached
RECURSIVE WalkBits(_, _, _, _)
WalkBits(children, bytes, c, k) ==
    IF c >= T THEN [leaf |-> c - T, k |-> k]
    ELSE IF k >= 8 * Len(bytes) THEN [leaf |-> -1, k |-> k]
    ELSE WalkBits(children, bytes, children[c + BitAt(bytes, k)], k + 1)

\* the input ends inside the next symbol or inside its position field
RunsShort(dec, bytes) ==
    LET w == WalkBits(dec.state.children, bytes, dec.state.children[R],
                      8 * Len(bytes) - UnreadBits(dec.stream))
        left == 8 * Len(bytes) - w.k
    IN \/ w.leaf = -1
       \/ /\ w.leaf >= 256
          /\ \/ left < 8
             \/ left - 8 < DECODE_LEN[BitsValue(bytes, w.k, 8) + 1] - 2

\* C23: a pass of the loop of decode (the buffer is not full yet) ends in
\* UnexpectedEof exactly when the input bits run out inside the next Huffman
\* symbol or inside its position field, and decode returns Ok only when
\* buffer.len() bytes have been produced.
C23_EofWhenBitsRunOut ==
    [][codec.pc = "decode" =>
         /\ codec.count < Len(codec.buffer) =>
               (codec'.pc = "eof" <=> RunsShort(codec.dec, codec.output))
         /\ codec'.pc = "ok" => codec.count = Len(codec.buffer)]_vars

\* decode ended in UnexpectedEof inside a position field after it had
\* produced a byte
C23_Witness ==
    /\ codec.pc = "eof"
    /\ codec.at = "decode_position"
    /\ Len(codec.buffer) > 1
    /\ codec.buffer[1] # 0


\* C28: for every input and every buffer length decode ends in Ok with the
\* whole buffer written or in UnexpectedEof, nothing else, also when the
\* last symbol is a match longer than the space left in the buffer.
C28_DecodeStaysInBuffer ==
    /\ codec.pc # "panic"
    /\ codec.pc = "ok" => codec.at = "return"

\* ========================================================================
\* The frame grammar (fbb.rs): frames with any number of data blocks
\* ========================================================================
MaxBlocks == 2      \* data blocks of a frame

\* the bytes of a data block: fewer than, exactly and more than the 6 bytes
\* of crc16 and uncompressed_size
BlockBodies == {Run(0, k) : k \in {1, 5, 6, 7}}
BlockLists == UNION {SeqsOf(BlockBodies, n) : n \in 0..MaxBlocks}

\* header, the data blocks, EOT and the checksum byte
GrammarFrame(title, blocks, sum) ==
    <<1, Len(title) + 3>> \o title \o <<0, 48, 0>> \o EmitBlocks(blocks) \o <<4, sum>>

InitGrammar ==
    /\ InitController
    /\ frame = [pc |-> "off"]
    /\ codec = [pc |-> "off"]
    /\ \E t \in {<<>>, <<72, 105>>}, bl \in BlockLists, sum \in {0, 1} :
          fn = [pc |-> "frame", blocks |-> bl, sum |-> sum,
                data |-> GrammarFrame(t, bl, sum)]

ParseFrame ==
    /\ fn.pc = "frame"
    /\ fn' = [pc |-> "parsed", blocks |-> fn.blocks, sum |-> fn.sum, data |-> fn.data,
              r |-> b2_message_block(fn.data)]
    /\ UNCHANGED <<ctlVars, frame, codec>>

NextGrammar == ParseFrame

SpecGrammar == InitGrammar /\ [][NextGrammar]_vars

\* C24: a valid header followed directly by EOT and a checksum byte, with no
\* data block in between, is never accepted as a CompressedMessage, and a
\* frame whose first data block has fewer than 6 bytes is rejected.
C24_AtLeastOneBlock ==
    fn.pc = "parsed" /\ (fn.blocks = <<>> \/ Len(fn.blocks[1]) < 6)
        => fn.r.kind # "Ok"

\* ========================================================================
\* The ports of VaraTncBuilder (vara.rs)
\* ========================================================================
DefaultControlPort == 8300
U16Max == 65535

\* NonZeroU16 values the setters are called with
Ports == {1, DefaultControlPort, DefaultControlPort + 1, U16Max - 1, U16Max}

\* VaraTnc::builder
builder == [control_port |-> DefaultControlPort, data_port |-> None]

build_no_check(b, io) ==
    LET sum == (b.control_port + 1) % 2^16
    IN IF ~b.data_port.some /\ sum = 0
       THEN [result |-> "panic", connects |-> <<b.control_port>>]
       ELSE [result |-> "Ok",
             connects |-> <<b.control_port,
                            IF b.data_port.some THEN b.data_port.val ELSE sum>>]

\* VaraTncBuilder::build: the result and the ports TcpStream::connect was
\* called with, in order; io names the connect that fails, if any.
\* control_port + 1 is a u16 sum and NonZeroU16::new(0).unwrap() panics.
build(b, io) ==
    IF b.control_port = U16Max /\ ~b.data_port.some
    THEN [result |-> "InvalidInput", connects |-> <<>>]
    ELSE IF io = "control" THEN [result |-> "Err", connects |-> <<b.control_port>>]
    ELSE LET sum == (b.control_port + 1) % 2^16
             data == IF b.data_port.some THEN b.data_port.val ELSE sum
         IN IF ~b.data_port.some /\ sum = 0
            THEN [result |-> "panic", connects |-> <<b.control_port>>]
            ELSE [result |-> IF io = "data" THEN "Err" ELSE "Ok",
                  connects |-> <<b.control_port, data>>]

InitBuilder ==
    /\ InitController
    /\ frame = [pc |-> "off"]
    /\ codec = [pc |-> "off"]
    /\ fn = [pc |-> "builder", b |-> builder]

\* VaraTncBuilder::control_port
SetControlPort ==
    /\ fn.pc = "builder"
    /\ \E p \in Ports : fn' = [fn EXCEPT !.b.control_port = p]
    /\ UNCHANGED <<ctlVars, frame, codec>>

\* VaraTncBuilder::data_port
SetDataPort ==
    /\ fn.pc = "builder"
    /\ \E p \in Ports : fn' = [fn EXCEPT !.b.data_port = Some(p)]
    /\ UNCHANGED <<ctlVars, frame, codec>>

Build ==
    /\ fn.pc = "builder"
    /\ \E io \in {"none", "control", "data"} :
          fn' = [pc |-> "built", b |-> fn.b, out |-> build(fn.b, io)]
    /\ UNCHANGED <<ctlVars, frame, codec>>

NextBuilder == SetControlPort \/ SetDataPort \/ Build

SpecBuilder == InitBuilder /\ [][NextBuilder]_vars

\* C25: with no data port configured, build connects the data socket to
\* control_port + 1 for every control port up to 65534, and for control port
\* 65535 it fails with InvalidInput before any connection is opened; the
\* port sum never wraps or overflows.
C25_DataPortDefault ==
    fn.pc = "built" /\ ~fn.b.data_port.some =>
        IF fn.b.control_port = 65535
        THEN fn.out.result = "InvalidInput" /\ fn.out.connects = <<>>
        ELSE /\ fn.out.result \in {"Ok", "Err"}
             /\ fn.out.connects \in {<<fn.b.control_port>>,
                                     <<fn.b.control_port, fn.b.control_port + 1>>}
             /\ fn.out.result = "Ok" => Len(fn.out.connects) = 2

\* the highest control port that has a default data port was built
C25_Witness ==
    /\ fn.pc = "built"
    /\ fn.out.result = "Ok"
    /\ ~fn.b.data_port.some
    /\ fn.out.connects = <<65534, 65535>>

\* ========================================================================
\* Position coding alone (lzhuf.rs, encode_position / decode_position)
\* ========================================================================
InitPosition ==
    /\ InitController
    /\ frame = [pc |-> "off"]
    /\ codec = [pc |-> "off"]
    /\ \E p \in 0..(N - 1) : fn = [pc |-> "position", p |-> p]

\* Encoder::encode_position(p) on a new encoder, then finish
EncodePosition ==
    /\ fn.pc = "position"
    /\ \E e \in {encode_position(Encoder_new, fn.p)} :
          fn' = [pc |-> "encoded", p |-> fn.p, bytes |-> Bitbuffer_drop(e.output)]
    /\ UNCHANGED <<ctlVars, frame, codec>>

\* Decoder::decode_position on the bytes written
DecodePosition ==
    /\ fn.pc = "encoded"
    /\ \E d \in {decode_position(Decoder_new(fn.bytes))} :
          fn' = [pc |-> "decoded", p |-> fn.p, bytes |-> fn.bytes, ret |-> d.ret,
                 consumed |-> 8 * Len(fn.bytes) - UnreadBits(d.dec.stream)]
    /\ UNCHANGED <<ctlVars, frame, codec>>

NextPosition == EncodePosition \/ DecodePosition

SpecPosition == InitPosition /\ [][NextPosition]_vars

\* C26: for every position p in 0..N-1, decode_position applied to the bits
\* encode_position(p) wrote returns p and consumes p_len[p >> 6] + 6 bits.
C26_PositionRoundTrip ==
    fn.pc = "decoded" =>
        /\ fn.ret = Some(fn.p)
        /\ fn.consumed = p_len[(fn.p \div 64) + 1] + 6

\* ========================================================================
\* More properties of the controller (specification Spec)
\* ========================================================================
\* C27: a connect whose CONNECT was answered OK, and that returned while the
\* controller was running, returned on a connection line the controller
\* processed after that CONNECT had been submitted: a connection update
\* published before the submission never makes it return.
C27_ConnectResolvedByOwnTransition ==
    \A s \in 1..MaxSessions :
        LET h == user.hist[s]
        IN (h.result # "none" /\ replies[h.slot].val = "Ok" /\ Running) =>
              \E i \in (h.subAt + 1)..h.resAt : IsConnectionLine(tncLog[i])


\* ========================================================================
\* The controller when the TNC closes the control connection (vara.rs)
\* ========================================================================
MaxEofReads == 2    \* reads at end-of-stream that are counted

\* fn.closed: the TNC has closed its end; fn.eof_reads: the reads of the
\* controller that returned Ok(0)
InitEof ==
    /\ InitController
    /\ frame = [pc |-> "off"]
    /\ codec = [pc |-> "off"]
    /\ fn = [pc |-> "tnc", closed |-> FALSE, eof_reads |-> 0]

TncClose ==
    /\ fn.pc = "tnc"
    /\ ~fn.closed
    /\ fn' = [fn EXCEPT !.closed = TRUE]
    /\ UNCHANGED <<ctlVars, frame, codec>>

\* the socket is readable at end-of-stream and try_read_buf returns Ok(0):
\* do_a_thing goes on with the bytes it has, in the branch stream.readable()
\* of the main loop as in the drain loop
CtlReadEof ==
    /\ Running
    /\ fn.pc = "tnc"
    /\ fn.closed
    /\ sockIn = <<>>
    /\ \E r \in {do_a_thing(upd_buffer, <<>>, tx, nProc)} :
       \E d \in {DeliverResults(response_queue, replies, r.acks,
                                IF ctlPc = "main" THEN "main" ELSE "drain")} :
          /\ tx' = r.tx
          /\ nProc' = r.n
          /\ IF r.err
             THEN /\ ctlPc' = "ParseError"
                  /\ replies' = DropSlots(replies, SeqRange(response_queue) \cup SeqRange(chan))
                  /\ UNCHANGED <<response_queue, upd_buffer>>
             ELSE /\ ctlPc' = IF ctlPc = "drain" /\ QueueDrained(d.queue)
                              THEN "Ok" ELSE ctlPc
                  /\ upd_buffer' = r.data
                  /\ response_queue' = d.queue
                  /\ replies' = d.replies
    /\ fn' = [fn EXCEPT !.eof_reads = IF @ < MaxEofReads THEN @ + 1 ELSE @]
    /\ UNCHANGED <<chan, inputOpen, sockOut, sockIn, tncLog, tncAnswers, user, fdc, rdc,
                   frame, codec>>

\* the TNC sends nothing once it has closed the connection
NextEof ==
    \/ CtlRecv
    \/ CtlInputClosed
    \/ CtlRead
    \/ CtlDrainRead
    \/ CtlIoError
    \/ ~fn.closed /\ TncRespond
    \/ ~fn.closed /\ TncUpdate
    \/ ClientSubmit
    \/ ClientCancel
    \/ CloseInput
    \/ TncClose
    \/ CtlReadEof

SpecEof == InitEof /\ [][NextEof]_vars

\* C29: once a read of the control socket has returned end-of-stream the
\* controller task has ended, in the main loop as in the drain loop, and no
\* submitter is left waiting on a reply slot.
C29_EofEndsController ==
    (fn.pc = "tnc" /\ fn.eof_reads > 0) =>
        /\ ~Running
        /\ \A k \in 1..Len(replies) : ~Awaiting(k)


\* ========================================================================
\* The match tree of the encoder (specification SpecCodec)
\* ========================================================================
\* the positions that are nodes of a tree
TreeNodes(e) == {p \in 0..(N - 1) : e.dad[p] # NIL}

\* node q is c or lies below c: the walk up from q over at most n fathers
RECURSIVE IsUnder(_, _, _, _)
IsUnder(e, q, c, n) ==
    \/ q = c
    \/ n > 0 /\ q < N /\ e.dad[q] < N /\ IsUnder(e, e.dad[q], c, n - 1)

\* the F bytes at q compare smaller than the F bytes at p
KeyLess(tb, q, p) ==
    LET diff == {i \in 0..(F - 1) : tb[q + i] # tb[p + i]}
    IN diff # {} /\ tb[q + MinOf(diff)] < tb[p + MinOf(diff)]

\* C30: after the inserts and deletes of every pass of encode the arrays
\* lson, rson and dad form a binary search tree over the F-byte keys: the
\* nodes under lson[p] have keys smaller than the key at p, the nodes under
\* rson[p] have keys greater than or equal to it.
C30_MatchTreeIsSearchTree ==
    codec.pc \in {"loop", "finish"} =>
        LET e == codec.enc
            tb == e.state.text_buffer
        IN \A p \in TreeNodes(e), q \in TreeNodes(e) :
              /\ (e.lson[p] # NIL /\ IsUnder(e, q, e.lson[p], N)) => KeyLess(tb, q, p)
              /\ (e.rson[p] # NIL /\ IsUnder(e, q, e.rson[p], N)) => ~KeyLess(tb, q, p)


\* ========================================================================
\* VaraStream::disconnect (specification SpecDisconnect)
\* ========================================================================
\* VaraStream::disconnect up to the completion of control_channel.send: the
\* stream is held by the future until send_disconnect has returned
StreamDisconnect ==
    /\ user.pc = "stream"
    /\ Running
    /\ Len(chan) < ChanCap
    /\ replies' = Append(replies, NewSlot([op |-> "Disconnect"], "stream", user.sess))
    /\ chan' = Append(chan, Len(replies) + 1)
    /\ user' = [user EXCEPT !.pc = "wait_disconnect", !.slot = Len(replies) + 1]
    /\ UNCHANGED <<ctlPc, response_queue, upd_buffer, tx, inputOpen, sockOut, sockIn,
                   tncLog, tncAnswers, nProc, fdc, rdc, frame, codec, fn>>

\* send_disconnect returns; `self` goes out of scope at the end of
\* VaraStream::disconnect and PinnedDrop runs
StreamDisconnectReturn ==
    LET s == user.sess
    IN /\ user.pc = "wait_disconnect"
       /\ SendCommandResult(user.slot) # "pending"
       /\ fdc' = [fdc EXCEPT ![s].st = IF ForceDisconnect(tx.connection)
                                        THEN "signalled" ELSE "ended",
                             ![s].dropConn = tx.connection.state]
       /\ rdc' = [rdc EXCEPT ![s].chan = "dropped"]
       /\ user' = [user EXCEPT !.pc = "idle"]
       /\ UNCHANGED <<ctlPc, response_queue, upd_buffer, tx, chan, inputOpen, replies,
                      sockOut, sockIn, tncLog, tncAnswers, nProc, frame, codec, fn>>

NextDisconnect ==
    \/ CtlRecv
    \/ CtlRead
    \/ TncRespond
    \/ TncUpdate
    \/ ConnectSubmit
    \/ ConnectReply
    \/ ConnectChanged
    \/ StreamDisconnect
    \/ StreamDisconnectReturn
    \/ RemoteDcStep
    \/ FdcSend
    \/ FdcDone

SpecDisconnect == Init /\ [][NextDisconnect]_vars

\* the DISCONNECT commands submitted for session s, by the stream or by its
\* force_dc task
SessionDisconnects(s) ==
    {k \in 1..Len(replies) : replies[k].cmd.op = "Disconnect" /\ replies[k].sess = s}

\* the stream of session s was closed with disconnect and the command was
\* answered OK
ClosedByDisconnect(s) ==
    /\ fdc[s].dropConn # "none"
    /\ \E k \in SessionDisconnects(s) :
          replies[k].origin = "stream" /\ replies[k].val = "Ok"

\* C31: a session closed with VaraStream::disconnect whose DISCONNECT was
\* acknowledged has exactly one DISCONNECT command submitted for it, and the
\* drop that ends disconnect does not signal force_dc, also when the
\* DISCONNECTED update has not arrived yet.
C31_DisconnectSubmittedOnce ==
    \A s \in 1..MaxSessions :
        ClosedByDisconnect(s) =>
            /\ Cardinality(SessionDisconnects(s)) = 1
            /\ fdc[s].st # "signalled"


\* ========================================================================
\* The remote_dc task of an open stream (specification SpecWatcher)
\* ========================================================================
MaxConnLines == 3   \* connection lines the TNC sends

ConnLines ==
    { S_CONNECTED \o KC1GSL \o <<SP>> \o KW1U, S_DISCONNECTED, S_PENDING,
      S_CANCELPENDING }

\* the TNC reports a change of the connection
TncConnLine ==
    /\ Running
    /\ Cardinality(Unsolicited) < MaxConnLines
    /\ \E ln \in ConnLines :
        /\ sockIn' = sockIn \o ln \o <<CR>>
        /\ tncLog' = Append(tncLog, ln)
    /\ UNCHANGED <<ctlPc, response_queue, upd_buffer, tx, chan, inputOpen, replies,
                   sockOut, tncAnswers, nProc, user, fdc, rdc, frame, codec, fn>>

NextWatcher ==
    \/ CtlRecv
    \/ CtlRead
    \/ TncRespond
    \/ TncConnLine
    \/ ConnectSubmit
    \/ ConnectReply
    \/ ConnectChanged
    \/ RemoteDcStep
    \/ StreamRead
    \/ StreamWrite

SpecWatcher == Init /\ [][NextWatcher]_vars

\* a DISCONNECTED line was applied to the status after connect returned the
\* stream of session s
EndedWhileOpen(s) ==
    /\ user.hist[s].result = "stream"
    /\ \E i \in (user.hist[s].resAt + 1)..nProc : tncLog[i] = S_DISCONNECTED

\* the remote_dc task of session s has seen the latest connection value
WatcherCaughtUp(s) == rdc[s].st # "none" /\ rdc[s].seen = tx.connVersion

\* C32: once the remote_dc task has caught up with the connection
\* observable, the stream of a session that DISCONNECTED ended has its
\* remote_disconnect signal, whatever connection lines followed the
\* DISCONNECTED: its next read is EOF and its next write ConnectionAborted.
C32_DisconnectNeverMissed ==
    \A s \in 1..MaxSessions :
        (user.pc = "stream" /\ user.sess = s /\ EndedWhileOpen(s) /\ WatcherCaughtUp(s))
            => rdc[s].chan # "empty"


\* ========================================================================
\* The parent and child arrays (specification SpecHuffman)
\* ========================================================================
\* the ids of the leaves: symbol c is the leaf c + T
LeafIds == T..(T + N_CHAR - 1)

\* C33: after any sequence of calls of update, those that run reconstruct
\* included, parents and children agree under the dual-slot convention:
\* parents[children[i]] = i for every position i < T, and parents[children[i]
\* + 1] = i too when the child is an internal pair; every leaf id is the
\* child of exactly one position; the count of an internal position is the
\* sum of the counts of its pair.
C33_ParentsMatchChildren ==
    fn.pc = "huffman" =>
        LET st == fn.st
            ch == st.children
        IN /\ \A i \in 0..(T - 1) :
                 /\ st.parents[ch[i]] = i
                 /\ ch[i] < T =>
                       /\ st.parents[ch[i] + 1] = i
                       /\ st.frequency_table[i] =
                            st.frequency_table[ch[i]] + st.frequency_table[ch[i] + 1]
           /\ {ch[i] : i \in 0..(T - 1)} \cap LeafIds = LeafIds
           /\ Cardinality({i \in 0..(T - 1) : ch[i] \in LeafIds}) = N_CHAR

\* reconstruct has run, a later call of update has exchanged nodes, and a
\* leaf sits among the positions that held internal nodes at the start
C33_Witness ==
    /\ fn.pc = "huffman"
    /\ fn.reconstructs >= 1
    /\ ~fn.reconstructed
    /\ \E i \in N_CHAR..(T - 1) : fn.st.children[i] >= T
    /\ \E i \in 0..(N_CHAR - 1) : fn.st.children[i] < T


\* ========================================================================
\* Encoder::encode on the empty input (specification SpecEmpty)
\* ========================================================================
MaxPasses == 100    \* passes of the main loop of encode that are followed

EmptyInputs == {<<>>, <<77>>}

\* build is the build profile: `len -= 1` at 0 panics with overflow checks
\* (debug) and wraps to 65535 without them (release)
InitEmpty ==
    /\ InitController
    /\ frame = [pc |-> "off"]
    /\ \E input \in EmptyInputs, profile \in {"debug", "release"} :
          /\ codec = [pc |-> "encode", input |-> input, enc |-> Encoder_new]
          /\ fn = [pc |-> "empty", build |-> profile, passes |-> 0]

\* the second loop of encode after `len -= 1` has wrapped: len is 65535,
\* insert_node(r) runs and the loop goes on while i < last_match_len
encode_shift_wrapped(w) ==
    encode_shift_loop([w EXCEPT !.len = 2^16 - 1,
                                !.e = insert_node(w.e, w.r),
                                !.underflow = FALSE,
                                !.done = w.i >= w.last], F)

\* one pass of the main loop of encode under the build profile
EncodePass ==
    /\ codec.pc = "loop"
    /\ fn.pc = "empty"
    /\ fn.passes < MaxPasses
    /\ \E e \in {encode_symbol(codec.enc, codec.r, codec.len)} :
       \E w \in {encode_shift_loop([e |-> e, iterator |-> codec.iterator,
                                    s |-> codec.s, r |-> codec.r, len |-> codec.len,
                                    i |-> 0, last |-> e.match_length,
                                    underflow |-> FALSE, done |-> FALSE], F)} :
       \E v \in {IF w.underflow /\ fn.build = "release"
                 THEN encode_shift_wrapped(w) ELSE w} :
          codec' = [codec EXCEPT
                      !.pc = IF v.e.state.panic \/ v.underflow THEN "panic"
                             ELSE IF v.len = 0 THEN "finish" ELSE "loop",
                      !.enc = v.e, !.iterator = v.iterator,
                      !.s = v.s, !.r = v.r, !.len = v.len]
    /\ fn' = [fn EXCEPT !.passes = @ + 1]
    /\ UNCHANGED <<ctlVars, frame>>

NextEmpty ==
    \/ EncodeStart
    \/ EncodePass
    \/ EncoderFinish

SpecEmpty == InitEmpty /\ [][NextEmpty]_vars

\* C34: encode on the empty input emits no symbol and ends: once the window
\* is set up the remaining length stays 0 (it never wraps below zero), the
\* bit buffer has received nothing, at most the pass that ends the loop has
\* run and it did not panic, and the bytes finish writes are none.
C34_EmptyInputEmitsNothing ==
    (fn.pc = "empty" /\ codec.input = <<>> /\ codec.pc # "encode") =>
        /\ codec.pc \in {"loop", "finish", "encoded"}
        /\ fn.passes <= 1
        /\ codec.pc \in {"loop", "finish"} =>
              /\ codec.len = 0
              /\ codec.enc.output = Bitbuffer_new
        /\ codec.pc = "encoded" => codec.output = <<>>


\* ========================================================================
\* The matches the encoder emits (specification SpecMatch)
\* ========================================================================
\* inputs in which a string returns after two earlier occurrences: three
\* pieces out of ABC, ABCD and BCD, each followed by a byte of its own
MatchPieces == {<<65, 66, 67>>, <<65, 66, 67, 68>>, <<66, 67, 68>>}

MatchInputs ==
    {a \o <<120>> \o b \o <<121>> \o c \o <<122>> :
        a \in MatchPieces, b \in MatchPieces, c \in MatchPieces}

InitMatch ==
    /\ InitController
    /\ frame = [pc |-> "off"]
    /\ fn = [pc |-> "off"]
    /\ \E input \in MatchInputs :
          codec = [pc |-> "encode", input |-> input, enc |-> Encoder_new]

NextMatch ==
    \/ EncodeStart
    \/ EncodeStep
    \/ EncoderFinish

SpecMatch == InitMatch /\ [][NextMatch]_vars

\* the number of bytes on which the F bytes at q and at r agree, counted as
\* insert_node counts them
CommonLength(tb, q, r) ==
    LET diff == {i \in 1..(F - 1) : tb[r + i] # tb[q + i]}
    IN IF diff = {} THEN F ELSE MinOf(diff)

\* the distance insert_node computes for the node q
Distance(r, q) == ((r - q) % N) - 1

\* the nodes the descent of insert_node(r) went through: the nodes above r,
\* and the node r has taken the place of
VisitedBy(e, r) ==
    {q \in 0..(N - 1) :
        \/ q # r /\ e.dad[q] # NIL /\ IsUnder(e, r, q, N)
        \/ e.match_length = F /\ q = (r - e.match_position - 1) % N}

\* the length of the match the next pass of encode emits
ClampedLength == IF codec.enc.match_length > codec.len THEN codec.len
                 ELSE codec.enc.match_length

\* the index in the input of the byte at r
InputAt == Len(codec.input) - Len(codec.iterator) - codec.len

MaxCallLines == 2   \* CONNECTED and REGISTERED lines the TNC sends

\* tokens the TNC puts where a callsign belongs: two callsigns, and three
\* digits
CallTokens == {KC1GSL, KW1U, <<49, 50, 51>>}

CallLines ==
    {S_REGISTERED \o c : c \in CallTokens}
      \cup {S_CONNECTED \o a \o <<SP>> \o b : a \in CallTokens, b \in CallTokens}

\* the TNC writes a CONNECTED or REGISTERED line to the control socket
TncSendsCalls ==
    /\ Len(tncLog) < MaxCallLines
    /\ \E ln \in CallLines :
        /\ sockIn' = sockIn \o ln \o <<CR>>
        /\ tncLog' = Append(tncLog, ln)
    /\ UNCHANGED <<ctlPc, response_queue, upd_buffer, tx, chan, inputOpen, replies,
                   sockOut, tncAnswers, nProc, user, fdc, rdc, frame, codec, fn>>

NextPublish ==
    \/ TncSendsCalls
    \/ CtlRead

SpecPublish == Init /\ [][NextPublish]_vars

\* the station identities the observables hold
Published(t) ==
    t.registered_calls
      \cup (IF IsConnected(t.connection)
            THEN {t.connection.my_station, t.connection.other_station} ELSE {})

\* C36: every StationId the controller has published is a value that
\* StationId construction accepts and returns unchanged; a token that is no
\* callsign never reaches the status.
C36_PublishedIdsAreValid ==
    \A id \in Published(tx) : normalize(id).ok /\ normalize(id).val = id


\* ========================================================================
\* Replies and the updates before them (specification Spec)
\* ========================================================================
\* the connection lines the controller has consumed
ConnectionLinesDone == Processed("Connection")

\* C37: when the reply of a command has been handed to its slot, the line
\* of that OK/WRONG and every line before it have been consumed, and the
\* connection observable holds the state of the last connection line
\* consumed (with one version per such line): a submitter reading the
\* status after its reply sees nothing older than the position of its reply.
C37_ReplyAfterPriorUpdates ==
    /\ \A k \in 1..Len(replies) :
          Delivered(k) => k <= Len(tncAnswers) /\ tncAnswers[k].at <= nProc
    /\ (\E k \in 1..Len(replies) : Delivered(k)) =>
          \E done \in {ConnectionLinesDone} :
             /\ tx.connVersion = Cardinality(done)
             /\ tx.connection =
                   IF done = {} THEN [state |-> "Disconnected"]
                   ELSE UpdateOf(LastOf(done)).state

\* a reply was delivered to a waiting submitter whose OK followed a
\* CONNECTED line in the stream, and the status shows that connection
C37_Witness ==
    \E k \in 1..Len(replies) :
        /\ Delivered(k)
        /\ replies[k].val = "Ok"
        /\ tncAnswers[k].at > 1
        /\ IsConnectedLine(tncLog[tncAnswers[k].at - 1])
        /\ nProc = tncAnswers[k].at
        /\ IsConnected(tx.connection)


\* ========================================================================
\* Termination of update (specification SpecHuffman)
\* ========================================================================
\* the walk of update from position c up the parents: it arrives at R, where
\* parents gives 0, within n steps
RECURSIVE WalkEndsAtRoot(_, _, _)
WalkEndsAtRoot(st, c, n) ==
    IF c = R THEN st.parents[c] = 0
    ELSE n > 0 /\ st.parents[c] # 0 /\ WalkEndsAtRoot(st, st.parents[c], n - 1)

\* the loop of update(c) called in this state finds the sentinel in place
\* and ends within T passes
UpdateEnds(st, c) ==
    \E s1 \in {IF st.frequency_table[R] = MAX_FREQ THEN reconstruct(st) ELSE st} :
       /\ ~s1.panic
       /\ s1.frequency_table[T] = 65535
       /\ update_loop([st |-> s1, c |-> s1.parents[c + T], done |-> FALSE], T).done

\* C38: between the calls of update the parent of every position below R is
\* a greater position (an internal position lies above its pair), only R has
\* parent 0, and frequency[T] is the sentinel 0xFFFF above every count: the
\* walk from any leaf arrives at R and stops, the scan to the right stops at
\* T at the latest, and the next call of update ends.
C38_UpdateTerminates ==
    fn.pc = "huffman" =>
        LET st == fn.st
        IN /\ \A i \in 0..(R - 1) : i < st.parents[i] /\ st.parents[i] <= R
           /\ \A j \in 0..(T - 1) : st.children[j] < T => st.children[j] + 1 < j
           /\ st.parents[R] = 0
           /\ st.frequency_table[T] = 65535
           /\ \A i \in 0..R : st.frequency_table[i] < 65535
           /\ \A c \in 0..(N_CHAR - 1) : WalkEndsAtRoot(st, st.parents[c + T], T)
           /\ \A c \in HuffmanSymbols : UpdateEnds(st, c)

\* reconstruct has run, and the symbol counted last has its leaf among the
\* upper positions, several steps below the root
C38_Witness ==
    /\ fn.pc = "huffman"
    /\ fn.reconstructs >= 1
    /\ fn.st.parents[fn.c + T] >= N_CHAR
    /\ fn.st.parents[fn.st.parents[fn.c + T]] # R
====
